---- MODULE Spec2Model ----
(***************************************************************************)
(* A model of the cost-awareness experiment analysis of opendc:            *)
(*   Utils/util.py            registry, loader, aggregate_runs             *)
(*   analyze_experiments.py   ExperimentAnalyzer and its driver            *)
(*   more_analysis.py         the cross-pattern analysis and its loader    *)
(*                                                                         *)
(* A Python str is a sequence of one-character strings, so that substring  *)
(* search, the regular expression, lower() and concatenation are computed  *)
(* and not assumed.  A float is a tagged value: a fraction in lowest terms, *)
(* or nan, or inf.                                                         *)
(*                                                                         *)
(* Specifications:                                                         *)
(*   Spec          a load of one pattern by read_parquet_files or          *)
(*                 load_data, then the aggregate of the host table         *)
(*   SpecClassify  the topology classifiers, call by call                  *)
(*   SpecAgg       aggregate_runs on tagged and untagged tables            *)
(*   SpecTask      the task statistics of both programs                    *)
(*   SpecCmp       cost metrics and comparative_analysis                   *)
(*   SpecMain      the drivers of both programs, pattern by pattern        *)
(***************************************************************************)
EXTENDS Integers, Sequences, FiniteSets, TLC

(***************************************************************************)
(* Strings                                                                 *)
(***************************************************************************)
UpperChars == <<"A", "B", "C", "D", "E", "F", "G", "H", "I", "J", "K", "L", "M",
                "N", "O", "P", "Q", "R", "S", "T", "U", "V", "W", "X", "Y", "Z">>

LowerChars == <<"a", "b", "c", "d", "e", "f", "g", "h", "i", "j", "k", "l", "m",
                "n", "o", "p", "q", "r", "s", "t", "u", "v", "w", "x", "y", "z">>

DigitChars == <<"0", "1", "2", "3", "4", "5", "6", "7", "8", "9">>

\* str.lower() on one character
LowerChar(c) ==
    IF \E i \in 1..Len(UpperChars) : UpperChars[i] = c
    THEN LowerChars[CHOOSE i \in 1..Len(UpperChars) : UpperChars[i] = c]
    ELSE c

\* str.lower()
Lower(s) == [i \in 1..Len(s) |-> LowerChar(s[i])]

\* whether needle occurs in hay at position i (1-based)
OccursAt(needle, hay, i) ==
    /\ i >= 1
    /\ i + Len(needle) - 1 <= Len(hay)
    /\ \A k \in 1..Len(needle) : hay[i + k - 1] = needle[k]

\* needle in hay
Contains(hay, needle) == \E i \in 1..(Len(hay) + 1) : OccursAt(needle, hay, i)

\* str.startswith
StartsWith(s, prefix) == OccursAt(prefix, s, 1)

\* str.isdigit(): non-empty and every character a digit
IsDigit(s) ==
    /\ Len(s) > 0
    /\ \A i \in 1..Len(s) : \E d \in 1..Len(DigitChars) : DigitChars[d] = s[i]

DigitValue(c) == (CHOOSE d \in 1..Len(DigitChars) : DigitChars[d] = c) - 1

RECURSIVE ParseInt(_)
\* int(s) for a string of digits
ParseInt(s) ==
    IF Len(s) = 0 THEN 0
    ELSE 10 * ParseInt(SubSeq(s, 1, Len(s) - 1)) + DigitValue(s[Len(s)])

\* os.path.join of two components
PathJoin(a, b) == a \o <<"/">> \o b

SlashPositions(p) == {i \in 1..Len(p) : p[i] = "/"}

LastSlash(p) == CHOOSE i \in SlashPositions(p) : \A j \in SlashPositions(p) : j <= i

\* os.path.dirname
Dirname(p) == IF SlashPositions(p) = {} THEN <<>> ELSE SubSeq(p, 1, LastSlash(p) - 1)

\* os.path.basename
Basename(p) == IF SlashPositions(p) = {} THEN p ELSE SubSeq(p, LastSlash(p) + 1, Len(p))

S_small == <<"s", "m", "a", "l", "l">>
S_medium == <<"m", "e", "d", "i", "u", "m">>
S_large == <<"l", "a", "r", "g", "e">>
S_unknown == <<"u", "n", "k", "n", "o", "w", "n">>
S_SimpleCost == <<"S", "i", "m", "p", "l", "e", "C", "o", "s", "t">>
S_CostEfficient == <<"C", "o", "s", "t", "E", "f", "f", "i", "c", "i", "e", "n", "t">>
S_PredictiveCost == <<"P", "r", "e", "d", "i", "c", "t", "i", "v", "e", "C", "o", "s", "t">>
S_Unknown == <<"U", "n", "k", "n", "o", "w", "n">>
S_topology_ == <<"t", "o", "p", "o", "l", "o", "g", "y", "_">>
S_simplecost == <<"s", "i", "m", "p", "l", "e", "c", "o", "s", "t">>
S_costefficient == <<"c", "o", "s", "t", "e", "f", "f", "i", "c", "i", "e", "n", "t">>
S_predictivecost == <<"p", "r", "e", "d", "i", "c", "t", "i", "v", "e", "c", "o", "s", "t">>
S_seedEq == <<"s", "e", "e", "d", "=">>
S_cost_comparison == <<"c", "o", "s", "t", "_", "c", "o", "m", "p", "a", "r", "i", "s", "o", "n">>
S_cost_experiment_ == <<"c", "o", "s", "t", "_", "e", "x", "p", "e", "r", "i", "m", "e", "n", "t", "_">>
S_raw_output == <<"r", "a", "w", "-", "o", "u", "t", "p", "u", "t">>
S_output == <<"o", "u", "t", "p", "u", "t">>

\* the size classes a topology can be given
TopologyClasses == {S_small, S_medium, S_large, S_unknown}

(***************************************************************************)
(* Topology class and scheduler label                                      *)
(***************************************************************************)
SizeTokens == <<S_small, S_medium, S_large>>

\* positions at which topology_(small|medium|large) matches
RegexMatches(s) ==
    {i \in 1..Len(s) : \E k \in 1..Len(SizeTokens) : OccursAt(S_topology_ \o SizeTokens[k], s, i)}

\* re.search(r'topology_(small|medium|large)', s): group(1) of the leftmost
\* match, 'unknown' when there is none
RegexTopology(s) ==
    IF RegexMatches(s) = {} THEN S_unknown
    ELSE LET i == CHOOSE m \in RegexMatches(s) : \A n \in RegexMatches(s) : m <= n
             k == CHOOSE t \in 1..Len(SizeTokens) : OccursAt(S_topology_ \o SizeTokens[t], s, i)
         IN  SizeTokens[k]

\* the if/elif chain over "small", "medium", "large" in s.lower(); <<>> stands
\* for falling through the chain
SubstringTopology(s) ==
    IF Contains(Lower(s), S_small) THEN S_small
    ELSE IF Contains(Lower(s), S_medium) THEN S_medium
    ELSE IF Contains(Lower(s), S_large) THEN S_large
    ELSE <<>>

\* the if/elif chain over the scheduler names in scenario_path.lower()
SubstringScheduler(s) ==
    IF Contains(Lower(s), S_simplecost) THEN S_SimpleCost
    ELSE IF Contains(Lower(s), S_costefficient) THEN S_CostEfficient
    ELSE IF Contains(Lower(s), S_predictivecost) THEN S_PredictiveCost
    ELSE S_Unknown

(***************************************************************************)
(* The registry (trackr.json) and the labels read from it                  *)
(***************************************************************************)
\* A registry entry.  has_path / has_policy say whether the entry holds the
\* keys topology.pathToFile and allocationPolicy.policyType.
Entry(p, s) == [has_path |-> TRUE, pathToFile |-> p, has_policy |-> TRUE, policyType |-> s]

\* an entry without allocationPolicy
EntryNoPolicy(p) == [has_path |-> TRUE, pathToFile |-> p, has_policy |-> FALSE, policyType |-> <<>>]

P_small == S_topology_ \o S_small
P_large == S_topology_ \o S_large
P_medium == S_topology_ \o S_medium
P_plain == <<"p", "l", "a", "i", "n", ".", "j", "s", "o", "n">>
P_topo_Large == <<"t", "o", "p", "o", "_", "L", "a", "r", "g", "e">>
P_large_small == S_topology_ \o S_large \o <<"_">> \o S_small

\* the topology paths the registries of the model hold
TopologyPaths == {P_small, P_large, P_medium, P_plain, P_topo_Large, P_large_small}

S_out_small == <<"o", "u", "t", "_", "s", "m", "a", "l", "l">>
S_diurnal == <<"d", "i", "u", "r", "n", "a", "l">>

\* the base_path arguments of the model
BasePaths == {S_output, S_out_small}

\* <base>/cost_comparison/<pattern>/cost_experiment_<pattern>
ExperimentPath(base_path, cost_pattern) ==
    PathJoin(PathJoin(PathJoin(base_path, S_cost_comparison), cost_pattern),
             S_cost_experiment_ \o cost_pattern)

\* pattern_path of both loaders: .../raw-output
PatternPath(base_path, cost_pattern) ==
    PathJoin(ExperimentPath(base_path, cost_pattern), S_raw_output)

\* read_parquet_files, the labels of one scenario directory: the registry entry
\* at the directory's index, the regular expression on its topology path, its
\* policy type.  err names the exception the lookup raises, "" for none.
ScenarioInfo(trackr_data, scenario_num) ==
    LET n == ParseInt(scenario_num) IN
    IF n >= Len(trackr_data)
    THEN [err |-> "IndexError", topology |-> <<>>, scheduler |-> <<>>]
    ELSE IF ~trackr_data[n + 1].has_path \/ ~trackr_data[n + 1].has_policy
    THEN [err |-> "KeyError", topology |-> <<>>, scheduler |-> <<>>]
    ELSE [err |-> "",
          topology |-> RegexTopology(trackr_data[n + 1].pathToFile),
          scheduler |-> trackr_data[n + 1].policyType]

\* get_experiment_mapping: the exception of the lookups of lines 78 and 84
MappingError(trackr_data) ==
    IF \E i \in 1..Len(trackr_data) : ~trackr_data[i].has_path \/ ~trackr_data[i].has_policy
    THEN "KeyError" ELSE ""

\* get_experiment_mapping when it does not raise: one row per registry entry
ExperimentMapping(trackr_data) ==
    [i \in 1..Len(trackr_data) |->
        [scenario |-> i - 1,
         topology |-> RegexTopology(trackr_data[i].pathToFile),
         scheduler |-> trackr_data[i].policyType]]

\* whether get_scheduler_info / parse_topology_size find a registry entry for
\* the scenario directory: trackr.json exists two levels up and the directory's
\* number is below the number of entries
HasConfig(scenario_path, trackr_exists, configs) ==
    /\ trackr_exists
    /\ IsDigit(Basename(scenario_path))
    /\ ParseInt(Basename(scenario_path)) < Len(configs)

ConfigOf(scenario_path, configs) == configs[ParseInt(Basename(scenario_path)) + 1]

\* more_analysis.get_scheduler_info
SchedulerInfo(scenario_path, trackr_exists, configs) ==
    IF trackr_exists /\ ~IsDigit(Basename(scenario_path))
    THEN S_Unknown  \* int() raises, the except branch returns "Unknown"
    ELSE IF HasConfig(scenario_path, trackr_exists, configs)
    THEN IF ConfigOf(scenario_path, configs).has_policy
         THEN ConfigOf(scenario_path, configs).policyType
         ELSE S_Unknown
    ELSE SubstringScheduler(scenario_path)

\* the fallback of parse_topology_size: the chain over the scenario path
PathTopology(scenario_path) ==
    IF SubstringTopology(scenario_path) = <<>> THEN S_unknown
    ELSE SubstringTopology(scenario_path)

\* more_analysis.parse_topology_size
ParseTopologySize(scenario_path, trackr_exists, configs) ==
    IF HasConfig(scenario_path, trackr_exists, configs)
    THEN LET c == ConfigOf(scenario_path, configs)
             topology_path == IF c.has_path THEN c.pathToFile ELSE <<>>
         IN  IF SubstringTopology(topology_path) # <<>>
             THEN SubstringTopology(topology_path)
             ELSE PathTopology(scenario_path)
    ELSE PathTopology(scenario_path)

(***************************************************************************)
(* Numbers.  A float is [k, n, d]: the fraction n/d in lowest terms        *)
(* (k = "num"), or nan, or inf.                                            *)
(***************************************************************************)
RECURSIVE GCD(_, _)
GCD(a, b) == IF b = 0 THEN a ELSE GCD(b, a % b)

Abs(a) == IF a < 0 THEN -a ELSE a

\* the float n/d, d > 0
Num(n, d) == [k |-> "num", n |-> n \div GCD(Abs(n), d), d |-> d \div GCD(Abs(n), d)]

NaN == [k |-> "nan", n |-> 0, d |-> 1]

Inf == [k |-> "inf", n |-> 1, d |-> 1]

\* the division with its operands exchanged: b / a
DivInverse(a, b) ==
    IF a.k = "nan" \/ b.k = "nan" THEN NaN
    ELSE IF a.n = 0 THEN (IF b.n = 0 THEN NaN ELSE Inf)
    ELSE LET gn == GCD(a.n, b.n)
             gd == GCD(a.d, b.d)
         IN  Num((b.n \div gn) * (a.d \div gd), (b.d \div gd) * (a.n \div gn))

\* float division of two finite non-negative floats: x / 0 is inf, 0 / 0 is nan
\* (a division of pandas Series or of numpy floats raises nothing), anything
\* with nan is nan
Div(a, b) ==
    IF a.k = "nan" \/ b.k = "nan" THEN NaN
    ELSE IF b.n = 0 THEN (IF a.n = 0 THEN NaN ELSE Inf)
    ELSE LET gn == GCD(a.n, b.n)
             gd == GCD(a.d, b.d)
         IN  Num((a.n \div gn) * (b.d \div gd), (a.d \div gd) * (b.n \div gn))

\* the decimals of .round(4)
Places == 4

Scale == 10 ^ Places

\* a / b (b > 0) rounded to Places decimals, a tie to the even neighbour
Round(a, b) ==
    LET q == (a * Scale) \div b
        r == (a * Scale) % b
    IN  Num(IF 2 * r > b \/ (2 * r = b /\ q % 2 = 1) THEN q + 1 ELSE q, Scale)

RECURSIVE Sum(_)
Sum(vals) == IF vals = <<>> THEN 0 ELSE Head(vals) + Sum(Tail(vals))

Squares(vals) == [i \in 1..Len(vals) |-> vals[i] * vals[i]]

\* the base-100 digits of q, most significant first
RECURSIVE Base100(_)
Base100(q) == IF q < 100 THEN <<q>> ELSE Append(Base100(q \div 100), q % 100)

\* the first j base-100 digits of the fraction r/d (r < d), and what is left
RECURSIVE FracPairs(_, _, _)
FracPairs(r, d, j) ==
    IF j = 0 THEN <<>> ELSE <<(r * 100) \div d>> \o FracPairs((r * 100) % d, d, j - 1)

RECURSIVE FracRest(_, _, _)
FracRest(r, d, j) == IF j = 0 THEN r ELSE FracRest((r * 100) % d, d, j - 1)

\* one step of the digit-by-digit square root
SqrtStep(st, pair) ==
    LET cur == st.rem * 100 + pair
        dg == CHOOSE x \in 0..9 :
                 /\ (20 * st.root + x) * x <= cur
                 /\ (x = 9 \/ (20 * st.root + x + 1) * (x + 1) > cur)
    IN  [root |-> st.root * 10 + dg, rem |-> cur - (20 * st.root + dg) * dg]

RECURSIVE SqrtDigits(_, _)
SqrtDigits(st, pairs) ==
    IF pairs = <<>> THEN st ELSE SqrtDigits(SqrtStep(st, Head(pairs)), Tail(pairs))

\* sqrt(a / b) (a >= 0, b > 0) rounded to Places decimals
SqrtRound(a, b) ==
    LET st == SqrtDigits([root |-> 0, rem |-> 0],
                         Base100(a \div b) \o FracPairs(a % b, b, Places))
        rest == FracRest(a % b, b, Places)
        up == st.rem > st.root \/ (st.rem = st.root /\ 4 * rest >= b)
    IN  Num(IF up THEN st.root + 1 ELSE st.root, Scale)

\* Series.mean() then .round(4); nan for no values
Mean(vals) == IF vals = <<>> THEN NaN ELSE Round(Sum(vals), Len(vals))

\* the population standard deviation (ddof = 0): 0 for a single value
StdPopulation(vals) ==
    IF Len(vals) < 1 THEN NaN
    ELSE SqrtRound(Len(vals) * Sum(Squares(vals)) - Sum(vals) * Sum(vals),
                   Len(vals) * Len(vals))

\* Series.std() (ddof = 1) then .round(4): nan for fewer than two values
Std(vals) ==
    IF Len(vals) < 2 THEN NaN
    ELSE SqrtRound(Len(vals) * Sum(Squares(vals)) - Sum(vals) * Sum(vals),
                   Len(vals) * (Len(vals) - 1))

\* a cost efficiency that is 0 for a mean cost of 0
CostEfficiencyClamped(cpu_utilization_mean, cost_mean) ==
    IF cost_mean.k = "num" /\ cost_mean.n = 0 THEN Num(0, 1)
    ELSE Div(cpu_utilization_mean, cost_mean)

\* the cost efficiency of a group: mean utilization / mean cost
\* (analyze_experiments.py:242, more_analysis.py:186)
CostEfficiency(cpu_utilization_mean, cost_mean) == Div(cpu_utilization_mean, cost_mean)

(***************************************************************************)
(* Tables.  A DataFrame is [columns, rows]: the set of its column names    *)
(* and the sequence of its rows, each a record over the columns.           *)
(***************************************************************************)
Range(f) == {f[i] : i \in DOMAIN f}

\* a DataFrame without columns: pd.DataFrame()
NoTable == [columns |-> {}, rows |-> <<>>]

BoundedSeq(S, n) == UNION {[1..m -> S] : m \in 0..n}

\* the characters of the model's strings, by code point
CodeOrder == <<"-", ".", "/">> \o DigitChars \o <<"=">> \o UpperChars \o <<"_">> \o LowerChars

Code(c) == CHOOSE i \in 1..Len(CodeOrder) : CodeOrder[i] = c

\* a < b for two str values
StrLess(a, b) ==
    \E i \in 1..(Len(a) + 1) :
        /\ \A j \in 1..(i - 1) : j <= Len(b) /\ a[j] = b[j]
        /\ i <= Len(b)
        /\ (i = Len(a) + 1 \/ Code(a[i]) < Code(b[i]))

\* the columns that hold integers; the other key columns hold str values
IntColumns == {"scenario", "seed", "task_id", "datetime"}

ValueLess(col, x, y) == IF col \in IntColumns THEN x < y ELSE StrLess(x, y)

\* key tuples compare as Python tuples do
KeyLess(cols, k1, k2) ==
    \E i \in 1..Len(cols) :
        /\ \A j \in 1..(i - 1) : k1[j] = k2[j]
        /\ ValueLess(cols[i], k1[i], k2[i])

RECURSIVE SortKeys(_, _)
\* the keys of a groupby, sorted
SortKeys(keys, cols) ==
    IF keys = {} THEN <<>>
    ELSE LET least == CHOOSE k \in keys : \A o \in keys : ~KeyLess(cols, o, k)
         IN  <<least>> \o SortKeys(keys \ {least}, cols)

KeyOf(row, cols) == [i \in 1..Len(cols) |-> row[cols[i]]]

RECURSIVE SelectRows(_, _, _)
\* the rows of a group, in table order
SelectRows(rows, cols, key) ==
    IF rows = <<>> THEN <<>>
    ELSE (IF KeyOf(Head(rows), cols) = key THEN <<Head(rows)>> ELSE <<>>)
         \o SelectRows(Tail(rows), cols, key)

Column(rows, col) == [i \in 1..Len(rows) |-> rows[i][col]]

(***************************************************************************)
(* aggregate_runs                                                          *)
(***************************************************************************)
\* aggregate_runs without its two appends
AugmentedColsNone(df, group_cols) == group_cols

\* group_cols after the two appends of aggregate_runs
AugmentedCols(df, group_cols) ==
    LET g1 == IF "topology" \notin Range(group_cols) /\ "topology" \in df.columns
              THEN Append(group_cols, "topology") ELSE group_cols
    IN  IF "scheduler" \notin Range(g1) /\ "scheduler" \in df.columns
        THEN Append(g1, "scheduler") ELSE g1

\* df.groupby(cols).agg({m: ['mean', 'std']}).round(4): one row per key, sorted
GroupAgg(df, cols, metric_cols) ==
    LET keys == SortKeys({KeyOf(df.rows[i], cols) : i \in 1..Len(df.rows)}, cols)
    IN  [i \in 1..Len(keys) |->
            [key |-> keys[i],
             stats |-> [m \in Range(metric_cols) |->
                          [mean |-> Mean(Column(SelectRows(df.rows, cols, keys[i]), m)),
                           std |-> Std(Column(SelectRows(df.rows, cols, keys[i]), m))]]]]

\* aggregate_runs(df, group_cols, metric_cols): what it raises, what it leaves
\* in the caller's group_cols list, and the grouped table it returns
AggregateRuns(df, group_cols, metric_cols) ==
    LET cols == AugmentedCols(df, group_cols)
        err == IF cols = <<>> THEN "ValueError"
               ELSE IF ~(Range(cols) \cup Range(metric_cols) \subseteq df.columns)
               THEN "KeyError"
               ELSE ""
    IN  [err |-> err,
         group_cols |-> cols,
         index |-> IF err = "" THEN cols ELSE <<>>,
         metrics |-> IF err = "" THEN metric_cols ELSE <<>>,
         rows |-> IF err = "" THEN GroupAgg(df, cols, metric_cols) ELSE <<>>]

(***************************************************************************)
(* The task statistics of the two analysis programs                        *)
(***************************************************************************)
S__cost_ == <<"_", "c", "o", "s", "t", "_">>

\* a label without the scheduler
ScenarioLabelOfTopology(topology, cost_pattern, scheduler) ==
    topology \o S__cost_ \o cost_pattern

\* the label ExperimentAnalyzer.__init__ puts on a row
ScenarioLabel(topology, cost_pattern, scheduler) ==
    topology \o S__cost_ \o cost_pattern \o <<"_">> \o scheduler

VALID_SCHEDULERS == {S_CostEfficient, S_PredictiveCost}

\* ExperimentAnalyzer.__init__ on a loaded table: the filter, then the label
AnalyzerTable(rows, cost_pattern) ==
    LET kept == SelectSeq(rows, LAMBDA r : r.scheduler \in VALID_SCHEDULERS)
    IN  [i \in 1..Len(kept) |->
            [scenario_label |->
                ScenarioLabel(kept[i].topology, cost_pattern, kept[i].scheduler)]
            @@ kept[i]]

RECURSIVE Unique(_)
\* Series.unique(): the values in order of first appearance
Unique(s) ==
    IF s = <<>> THEN <<>>
    ELSE <<Head(s)>> \o Unique(SelectSeq(Tail(s), LAMBDA x : x # Head(s)))

\* groupby('task_id').last(): per task_id, in sorted order, its last row
LastByTask(rows) ==
    LET ids == SortSeq(Unique(Column(rows, "task_id")), LAMBDA a, b : a < b)
    IN  [i \in 1..Len(ids) |->
            LET mine == SelectSeq(rows, LAMBDA r : r.task_id = ids[i])
            IN  mine[Len(mine)]]

\* finish_time - creation_time of every row, in milliseconds
Durations(rows) == [i \in 1..Len(rows) |-> rows[i].finish_time - rows[i].creation_time]

None == [k |-> "none", n |-> 0, d |-> 1]

\* the float sqrt(n / d), kept exact
Sqrt(n, d) ==
    IF n = 0 THEN Num(0, 1)
    ELSE [k |-> "sqrt", n |-> n \div GCD(n, d), d |-> d \div GCD(n, d)]

\* the statistics of durations / 1000: milliseconds to seconds
SecondsMean(ms) == Num(Sum(ms), 1000 * Len(ms))

SecondsMedian(ms) ==
    LET sorted == SortSeq(ms, LAMBDA a, b : a < b)
        n == Len(ms)
    IN  IF n % 2 = 1 THEN Num(sorted[(n + 1) \div 2], 1000)
        ELSE Num(sorted[n \div 2] + sorted[n \div 2 + 1], 2000)

SecondsMin(ms) == Num(CHOOSE x \in Range(ms) : \A y \in Range(ms) : x <= y, 1000)

SecondsMax(ms) == Num(CHOOSE x \in Range(ms) : \A y \in Range(ms) : x >= y, 1000)

\* Series.std() (ddof = 1) and np.std (ddof = 0) of durations / 1000
SecondsStd(ms, ddof) ==
    IF Len(ms) - ddof <= 0 THEN NaN
    ELSE Sqrt(Len(ms) * Sum(Squares(ms)) - Sum(ms) * Sum(ms),
              Len(ms) * (Len(ms) - ddof) * 1000 * 1000)

Count(rows, state) == Len(SelectSeq(rows, LAMBDA r : r.task_state = state))

\* the metrics dict of one scenario label (analyze_experiments.py, 313 to 341)
ScenarioMetrics(rows, scenario) ==
    LET scenario_tasks == SelectSeq(rows, LAMBDA r : r.scenario_label = scenario)
        task_final_states == LastByTask(scenario_tasks)
        total_tasks == Len(task_final_states)
        completed_tasks == SelectSeq(task_final_states,
                                     LAMBDA r : r.task_state = "COMPLETED")
        completion_times == Durations(completed_tasks)
        empty == completion_times = <<>>
        Rate(state) == IF total_tasks > 0
                       THEN Num(Count(task_final_states, state), total_tasks)
                       ELSE Num(0, 1)
    IN  [total_tasks |-> total_tasks,
         completion_rate |-> Rate("COMPLETED"),
         termination_rate |-> Rate("TERMINATED"),
         error_rate |-> Rate("ERROR"),
         avg_completion_time |-> IF empty THEN None ELSE SecondsMean(completion_times),
         median_completion_time |-> IF empty THEN None ELSE SecondsMedian(completion_times),
         std_completion_time |-> IF empty THEN None ELSE SecondsStd(completion_times, 1),
         min_completion_time |-> IF empty THEN None ELSE SecondsMin(completion_times),
         max_completion_time |-> IF empty THEN None ELSE SecondsMax(completion_times)]

\* the entries of the metrics dict that can be None
TimeColumns ==
    {"avg_completion_time", "median_completion_time", "std_completion_time",
     "min_completion_time", "max_completion_time"}

\* pd.DataFrame.from_dict(scenario_stats, orient='index'): a None becomes nan
\* in a column that holds a number in another row
FromDict(index, scenario_stats) ==
    [l \in Range(index) |->
        [c \in DOMAIN scenario_stats[l] |->
            IF /\ c \in TimeColumns
               /\ scenario_stats[l][c] = None
               /\ \E o \in Range(index) : scenario_stats[o][c] # None
            THEN NaN
            ELSE scenario_stats[l][c]]]

\* ExperimentAnalyzer.analyze_task_completion on self.task_df: the error it
\* raises, the stats table it returns (index and rows) and the plots it saved
AnalyzeTaskCompletion(rows) ==
    LET unique_scenarios == Unique(Column(rows, "scenario_label"))
        scenario_stats == [l \in Range(unique_scenarios) |-> ScenarioMetrics(rows, l)]
    IN  IF unique_scenarios = <<>>
        THEN [err |-> "KeyError", index |-> <<>>, stats |-> <<>>, plots |-> {}]
        ELSE [err |-> "",
              index |-> unique_scenarios,
              stats |-> FromDict(unique_scenarios, scenario_stats),
              plots |-> {"completion_rates", "state_distribution"}
                        \cup (IF Count(rows, "COMPLETED") > 0
                              THEN {"completion_times"} ELSE {})]

\* more_analysis.analyze_task_completion on a loaded task table: one row per
\* (scheduler, topology) of the rows the filter keeps
MoreAnalyzeTaskCompletion(rows) ==
    LET kept == SelectSeq(rows, LAMBDA r : r.scheduler \notin {S_SimpleCost, S_Unknown})
        cols == <<"scheduler", "topology">>
        keys == SortKeys({KeyOf(kept[i], cols) : i \in 1..Len(kept)}, cols)
    IN  [i \in 1..Len(keys) |->
            LET group == SelectRows(kept, cols, keys[i])
                completed == SelectSeq(group, LAMBDA r : r.task_state = "COMPLETED")
                completion_times == Durations(completed)
                empty == completion_times = <<>>
            IN  [scheduler |-> keys[i][1],
                 topology |-> keys[i][2],
                 total_tasks |-> Len(group),
                 completed_tasks |-> Len(completed),
                 completion_rate |-> Num(Len(completed) * 100, Len(group)),
                 avg_completion_time |-> IF empty THEN NaN ELSE SecondsMean(completion_times),
                 median_completion_time |-> IF empty THEN NaN ELSE SecondsMedian(completion_times),
                 std_completion_time |-> IF empty THEN NaN ELSE SecondsStd(completion_times, 0)]]

(***************************************************************************)
(* ExperimentAnalyzer: cost metrics and the comparison                     *)
(***************************************************************************)
\* the flattened name of an aggregate column (analyze_experiments.py, 223)
Flat(metric, stat) == metric \o "_" \o stat

\* a flattening that joins both levels of every column, the empty second
\* level of a key column too
FlattenJoined(grouped_rows, index, metrics) ==
    [i \in 1..Len(grouped_rows) |->
        [c \in {Flat(index[j], "") : j \in 1..Len(index)}
                \cup {Flat(m, st) : m \in Range(metrics), st \in {"mean", "std"}} |->
            IF \E j \in 1..Len(index) : c = Flat(index[j], "")
            THEN grouped_rows[i].key[CHOOSE j \in 1..Len(index) : c = Flat(index[j], "")]
            ELSE LET m == CHOOSE x \in Range(metrics) : c \in {Flat(x, "mean"), Flat(x, "std")}
                 IN  IF c = Flat(m, "mean") THEN grouped_rows[i].stats[m].mean
                     ELSE grouped_rows[i].stats[m].std]]

\* reset_index() and the flattening of the columns: the key columns under
\* their own names, then <metric>_mean and <metric>_std
Flatten(grouped_rows, index, metrics) ==
    [i \in 1..Len(grouped_rows) |->
        [c \in Range(index) \cup {Flat(m, st) : m \in Range(metrics), st \in {"mean", "std"}} |->
            IF c \in Range(index)
            THEN grouped_rows[i].key[CHOOSE j \in 1..Len(index) : index[j] = c]
            ELSE LET m == CHOOSE x \in Range(metrics) : c \in {Flat(x, "mean"), Flat(x, "std")}
                 IN  IF c = Flat(m, "mean") THEN grouped_rows[i].stats[m].mean
                     ELSE grouped_rows[i].stats[m].std]]

\* ExperimentAnalyzer.analyze_cost_metrics on self.host_df
AnalyzeCostMetrics(table) ==
    LET cost_metrics == <<"cost", "cpu_utilization">>
        avg_costs == AggregateRuns(table, <<"scenario_label", "topology", "scheduler">>,
                                   cost_metrics)
        avg_costs_reset == Flatten(avg_costs.rows, avg_costs.index, cost_metrics)
        columns == Range(avg_costs.index)
                   \cup {Flat(m, st) : m \in Range(cost_metrics), st \in {"mean", "std"}}
        required_cols == {"cpu_utilization_mean", "cpu_utilization_std",
                          "cost_mean", "cost_std"}
    IN  IF avg_costs.err # ""
        THEN [err |-> avg_costs.err, columns |-> {}, rows |-> <<>>, plots |-> {}]
        ELSE IF ~(required_cols \subseteq columns)
        THEN [err |-> "KeyError", columns |-> {}, rows |-> <<>>, plots |-> {}]
        ELSE [err |-> "",
              columns |-> columns \cup {"cost_efficiency"},
              rows |-> [i \in 1..Len(avg_costs_reset) |->
                          [cost_efficiency |->
                              CostEfficiency(avg_costs_reset[i]["cpu_utilization_mean"],
                                             avg_costs_reset[i]["cost_mean"])]
                          @@ avg_costs_reset[i]],
              plots |-> {"cost_comparison"}]

\* the comparison keeps only the cost rows whose label has completion statistics
ComparisonRowsMatched(cost_rows, stats_index, stats) ==
    LET matched == SelectSeq(cost_rows, LAMBDA row : row.scenario_label \in Range(stats_index))
    IN  [i \in 1..Len(matched) |->
            [scenario_label |-> matched[i].scenario_label,
             topology |-> matched[i].topology,
             scheduler |-> matched[i].scheduler,
             avg_cost |-> matched[i].cost_mean,
             cost_std |-> matched[i].cost_std,
             cpu_utilization |-> matched[i].cpu_utilization_mean,
             cost_efficiency |-> matched[i].cost_efficiency,
             completion_rate |-> stats[matched[i].scenario_label].completion_rate]]

\* comparison_rows of comparative_analysis (lines 437 to 457)
ComparisonRows(cost_rows, stats_index, stats) ==
    [i \in 1..Len(cost_rows) |->
        [scenario_label |-> cost_rows[i].scenario_label,
         topology |-> cost_rows[i].topology,
         scheduler |-> cost_rows[i].scheduler,
         avg_cost |-> cost_rows[i].cost_mean,
         cost_std |-> cost_rows[i].cost_std,
         cpu_utilization |-> cost_rows[i].cpu_utilization_mean,
         cost_efficiency |-> cost_rows[i].cost_efficiency,
         completion_rate |-> IF cost_rows[i].scenario_label \in Range(stats_index)
                             THEN stats[cost_rows[i].scenario_label].completion_rate
                             ELSE None]]

\* pd.DataFrame(comparison_rows): a None completion_rate becomes nan when
\* another row holds a number
ComparisonFrame(comparison_rows) ==
    [i \in 1..Len(comparison_rows) |->
        IF /\ comparison_rows[i].completion_rate = None
           /\ \E j \in 1..Len(comparison_rows) : comparison_rows[j].completion_rate # None
        THEN [comparison_rows[i] EXCEPT !.completion_rate = NaN]
        ELSE comparison_rows[i]]

\* ExperimentAnalyzer.comparative_analysis(cost_metrics_df, completion_stats_df)
ComparativeAnalysis(cost_metrics_df, completion_stats_df) ==
    LET comparison_rows == ComparisonRows(cost_metrics_df.rows, completion_stats_df.index,
                                          completion_stats_df.stats)
    IN  [err |-> "",
         rows |-> ComparisonFrame(comparison_rows),
         plots |-> IF comparison_rows # <<>> THEN {"comparative_analysis"} ELSE {}]

(***************************************************************************)
(* The two loaders.  A seed directory is [name, files, host, task]: its    *)
(* name, the kinds of table it holds a parquet file of, and the tables.    *)
(***************************************************************************)
\* the pieces of s between "=" signs: s.split('=')
RECURSIVE SplitEq(_)
SplitEq(s) ==
    IF \A i \in 1..Len(s) : s[i] # "="
    THEN <<s>>
    ELSE LET at == CHOOSE i \in 1..Len(s) :
                      s[i] = "=" /\ \A j \in 1..(i - 1) : s[j] # "="
         IN  <<SubSeq(s, 1, at - 1)>> \o SplitEq(SubSeq(s, at + 1, Len(s)))

\* the tags with the scenario index in the seed column
TagSeedOfScenario(table, topology, scheduler, scenario, seed) ==
    [columns |-> table.columns \cup {"topology", "scheduler", "scenario", "seed"},
     rows |-> [i \in 1..Len(table.rows) |->
                 [topology |-> topology, scheduler |-> scheduler,
                  scenario |-> scenario, seed |-> scenario] @@ table.rows[i]]]

\* df[column] = value for the four tags, in the order of the assignments
Tag(table, topology, scheduler, scenario, seed) ==
    [columns |-> table.columns \cup {"topology", "scheduler", "scenario", "seed"},
     rows |-> [i \in 1..Len(table.rows) |->
                 [topology |-> topology, scheduler |-> scheduler,
                  scenario |-> scenario, seed |-> seed] @@ table.rows[i]]]

RECURSIVE ConcatRows(_)
ConcatRows(dfs) == IF dfs = <<>> THEN <<>> ELSE Head(dfs).rows \o ConcatRows(Tail(dfs))

\* pd.concat(dfs, ignore_index=True) of a non-empty list
Concat(dfs) ==
    [columns |-> UNION {dfs[i].columns : i \in 1..Len(dfs)}, rows |-> ConcatRows(dfs)]

FileOf(seed_dir, file_type) == IF file_type = "host" THEN seed_dir.host ELSE seed_dir.task

RECURSIVE ReadSeeds(_, _, _, _, _)
\* the loop of read_parquet_files over the seed directories of one scenario:
\* the tables it appends to dfs, or the error of int() on the seed
ReadSeeds(seed_dirs, file_type, topology, scheduler, scenario_num) ==
    IF seed_dirs = <<>> THEN [err |-> "", dfs |-> <<>>]
    ELSE LET seed_dir == Head(seed_dirs)
             rest == ReadSeeds(Tail(seed_dirs), file_type, topology, scheduler, scenario_num)
         IN  IF ~StartsWith(seed_dir.name, S_seedEq) \/ file_type \notin seed_dir.files
             THEN rest
             ELSE IF ~IsDigit(SplitEq(seed_dir.name)[2])
             THEN [err |-> "ValueError", dfs |-> <<>>]
             ELSE [err |-> rest.err,
                   dfs |-> <<Tag(FileOf(seed_dir, file_type), topology, scheduler,
                                 ParseInt(scenario_num),
                                 ParseInt(SplitEq(seed_dir.name)[2]))>> \o rest.dfs]

\* one scenario directory of read_parquet_files (lines 30 to 59)
ReadScenario(trackr_data, scenario_num, seed_dirs, file_type) ==
    IF ~IsDigit(scenario_num) THEN [err |-> "", dfs |-> <<>>]
    ELSE LET scenario_info == ScenarioInfo(trackr_data, scenario_num)
         IN  IF scenario_info.err # "" THEN [err |-> scenario_info.err, dfs |-> <<>>]
             ELSE ReadSeeds(seed_dirs, file_type, scenario_info.topology,
                            scenario_info.scheduler, scenario_num)

RECURSIVE LoadSeeds(_, _, _, _)
\* the loop of load_data over the seed directories of one scenario; an error
\* inside the try block skips what is left of that seed
LoadSeeds(seed_dirs, scenario_path, trackr_exists, configs) ==
    IF seed_dirs = <<>> THEN [host_dfs |-> <<>>, task_dfs |-> <<>>]
    ELSE LET seed_dir == Head(seed_dirs)
             rest == LoadSeeds(Tail(seed_dirs), scenario_path, trackr_exists, configs)
             ok == IsDigit(SplitEq(seed_dir.name)[2])
             Tagged(table) ==
                 Tag(table, ParseTopologySize(scenario_path, trackr_exists, configs),
                     SchedulerInfo(scenario_path, trackr_exists, configs),
                     ParseInt(Basename(scenario_path)),
                     ParseInt(SplitEq(seed_dir.name)[2]))
         IN  IF ~StartsWith(seed_dir.name, S_seedEq) THEN rest
             ELSE [host_dfs |-> (IF "host" \in seed_dir.files /\ ok
                                 THEN <<Tagged(seed_dir.host)>> ELSE <<>>) \o rest.host_dfs,
                   task_dfs |-> (IF /\ "task" \in seed_dir.files
                                    /\ ok
                                 THEN <<Tagged(seed_dir.task)>> ELSE <<>>) \o rest.task_dfs]

\* one scenario directory of load_data (lines 126 to 164)
LoadScenario(scenario, pattern_path, seed_dirs, trackr_exists, configs) ==
    IF ~IsDigit(scenario) THEN [host_dfs |-> <<>>, task_dfs |-> <<>>]
    ELSE LoadSeeds(seed_dirs, PathJoin(pattern_path, scenario), trackr_exists, configs)

(***************************************************************************)
(* The two loaders as whole calls.  The files of a pattern are             *)
(* [base_path, raw_exists, trackr_exists, trackr, listing, contents]: the   *)
(* base_path they are under, whether the raw-output directory and          *)
(* trackr.json exist, the registry, what os.listdir(raw-output) returns,   *)
(* and the seed directories of every integer-named scenario directory.     *)
(***************************************************************************)
SeedDirsOf(files, scenario_num) ==
    IF IsDigit(scenario_num) THEN files.contents[scenario_num] ELSE <<>>

RECURSIVE ReadScenarios(_, _, _)
\* the loop of read_parquet_files over os.listdir(pattern_path): the first
\* error ends it
ReadScenarios(files, listing, file_type) ==
    IF listing = <<>> THEN [err |-> "", dfs |-> <<>>]
    ELSE LET r == ReadScenario(files.trackr, Head(listing),
                               SeedDirsOf(files, Head(listing)), file_type)
             rest == ReadScenarios(files, Tail(listing), file_type)
         IN  IF r.err # "" THEN [err |-> r.err, dfs |-> <<>>]
             ELSE IF rest.err # "" THEN [err |-> rest.err, dfs |-> <<>>]
             ELSE [err |-> "", dfs |-> r.dfs \o rest.dfs]

\* read_parquet_files(base_path, cost_pattern, file_type) on the files of the
\* pattern: the exception it raises or the table it returns
ReadParquetFiles(files, file_type) ==
    IF ~files.trackr_exists \/ ~files.raw_exists
    THEN [err |-> "FileNotFoundError", table |-> NoTable]
    ELSE LET r == ReadScenarios(files, files.listing, file_type)
         IN  IF r.err # "" THEN [err |-> r.err, table |-> NoTable]
             ELSE IF r.dfs = <<>> THEN [err |-> "ValueError", table |-> NoTable]
             ELSE [err |-> "", table |-> Concat(r.dfs)]

RECURSIVE LoadScenarios(_, _, _)
\* the loop of load_data over os.listdir(pattern_path)
LoadScenarios(files, listing, pattern_path) ==
    IF listing = <<>> THEN [host_dfs |-> <<>>, task_dfs |-> <<>>]
    ELSE LET r == LoadScenario(Head(listing), pattern_path,
                               SeedDirsOf(files, Head(listing)),
                               files.trackr_exists, files.trackr)
             rest == LoadScenarios(files, Tail(listing), pattern_path)
         IN  [host_dfs |-> r.host_dfs \o rest.host_dfs,
              task_dfs |-> r.task_dfs \o rest.task_dfs]

\* load_data(base_path, cost_pattern) on the files of the pattern
LoadData(files, base_path, cost_pattern) ==
    IF ~files.raw_exists
    THEN [err |-> "FileNotFoundError", host |-> NoTable, task |-> NoTable]
    ELSE LET r == LoadScenarios(files, files.listing, PatternPath(base_path, cost_pattern))
         IN  IF r.host_dfs = <<>> \/ r.task_dfs = <<>>
             THEN [err |-> "ValueError", host |-> NoTable, task |-> NoTable]
             ELSE [err |-> "", host |-> Concat(r.host_dfs), task |-> Concat(r.task_dfs)]

(***************************************************************************)
(* analyze_experiments.py: one pattern from its files to its CSV files.    *)
(* A log record is [level, at, by]: the level, the pattern being           *)
(* processed and the function that logged.                                 *)
(***************************************************************************)
LogRecord(level, pattern, by) == [level |-> level, at |-> pattern, by |-> by]

\* df['datetime'] = pd.to_datetime(df['timestamp_absolute'], unit='ms'): the
\* conversion keeps the order and the equality of the timestamps
WithDatetime(table) ==
    [columns |-> table.columns \cup {"datetime"},
     rows |-> [i \in 1..Len(table.rows) |->
                 [datetime |-> table.rows[i].timestamp_absolute] @@ table.rows[i]]]

\* ExperimentAnalyzer.__init__: both loads, the filter, the timestamps and
\* the scenario labels
Analyzer(files, cost_pattern) ==
    LET Built(table) ==
            [columns |-> table.columns \cup {"datetime", "scenario_label"},
             rows |-> AnalyzerTable(WithDatetime(table).rows, cost_pattern)]
        Failed(e, stage) ==
            [err |-> e, stage |-> stage, host_df |-> NoTable, task_df |-> NoTable]
        Loaded(host, task) ==
            IF host.err # "" THEN Failed(host.err, "load")
            ELSE IF task.err # "" THEN Failed(task.err, "load")
            ELSE IF ~files.trackr_exists THEN Failed("FileNotFoundError", "load")
            ELSE IF \/ "timestamp_absolute" \notin host.table.columns
                    \/ "timestamp_absolute" \notin task.table.columns
            THEN Failed("KeyError", "timestamps")
            ELSE [err |-> "", stage |-> "",
                  host_df |-> Built(host.table), task_df |-> Built(task.table)]
    IN  Loaded(ReadParquetFiles(files, "host"), ReadParquetFiles(files, "task"))

\* ExperimentAnalyzer.analyze_resource_utilization on self.host_df
AnalyzeResourceUtilization(host_df) ==
    LET util_metrics == <<"cpu_utilization", "guests_running", "cpu_time_steal">>
        avg_utils == AggregateRuns(host_df, <<"scenario_label", "datetime">>, util_metrics)
    IN  IF avg_utils.err # "" THEN [err |-> avg_utils.err, rows |-> <<>>]
        ELSE [err |-> "",
              rows |-> Flatten(avg_utils.rows, avg_utils.index, util_metrics)]

\* the body of the loop of main (lines 529 to 548) for one pattern: the stage
\* that raised and its exception, the error records of the analyzer's logger,
\* the tables computed and the CSV files written
AnalyzePattern(files, pattern) ==
    LET Failed(e, stage) ==
            [err |-> e, stage |-> stage,
             logs |-> <<LogRecord("error", pattern, stage)>>,
             comparison |-> <<>>, written |-> {}]
        Compared(comparison) ==
            IF comparison.err # "" THEN Failed(comparison.err, "comparison")
            ELSE [err |-> "", stage |-> "", logs |-> <<>>,
                  comparison |-> comparison.rows,
                  written |-> {"resource_stats", "cost_stats", "task_stats", "comparison"}]
        Analyzed(analyzer, resource_stats, cost_stats, task_stats) ==
            IF analyzer.err # "" THEN Failed(analyzer.err, analyzer.stage)
            ELSE IF resource_stats.err # "" THEN Failed(resource_stats.err, "resource")
            ELSE IF cost_stats.err # "" THEN Failed(cost_stats.err, "cost")
            ELSE IF task_stats.err # "" THEN Failed(task_stats.err, "task")
            ELSE Compared(ComparativeAnalysis(cost_stats, task_stats))
        Built(analyzer) ==
            Analyzed(analyzer,
                     AnalyzeResourceUtilization(analyzer.host_df),
                     AnalyzeCostMetrics(analyzer.host_df),
                     AnalyzeTaskCompletion(analyzer.task_df.rows))
    IN  Built(Analyzer(files, pattern))

(***************************************************************************)
(* more_analysis.py: one pattern from its files to its two metric tables   *)
(***************************************************************************)
\* df[~df['scheduler'].isin(['SimpleCost', 'Unknown'])]
MoreFilter(table) ==
    [columns |-> table.columns,
     rows |-> SelectSeq(table.rows, LAMBDA r : r.scheduler \notin {S_SimpleCost, S_Unknown})]

\* Series.mean() and Series.std() (ddof = 1), not rounded
MeanExact(vals) == IF vals = <<>> THEN NaN ELSE Num(Sum(vals), Len(vals))

StdExact(vals) ==
    IF Len(vals) < 2 THEN NaN
    ELSE Sqrt(Len(vals) * Sum(Squares(vals)) - Sum(vals) * Sum(vals),
              Len(vals) * (Len(vals) - 1))

\* calculate_efficiency_metrics(host_df): one row per (scheduler, topology) of
\* the rows the filter keeps; an exception is logged and gives pd.DataFrame()
CalculateEfficiencyMetrics(host_df) ==
    LET kept == MoreFilter(host_df).rows
        cols == <<"scheduler", "topology">>
        keys == SortKeys({KeyOf(kept[i], cols) : i \in 1..Len(kept)}, cols)
    IN  IF keys = <<>> THEN [err |-> "", table |-> NoTable]
        ELSE IF ~({"cost", "cpu_utilization"} \subseteq host_df.columns)
        THEN [err |-> "KeyError", table |-> NoTable]
        ELSE [err |-> "",
              table |->
                [columns |-> {"scheduler", "topology", "avg_cost", "avg_utilization",
                              "cost_efficiency", "std_cost", "std_utilization"},
                 rows |-> [i \in 1..Len(keys) |->
                    LET group == SelectRows(kept, cols, keys[i])
                    IN  [scheduler |-> keys[i][1],
                         topology |-> keys[i][2],
                         avg_cost |-> MeanExact(Column(group, "cost")),
                         avg_utilization |-> MeanExact(Column(group, "cpu_utilization")),
                         cost_efficiency |->
                             CostEfficiency(MeanExact(Column(group, "cpu_utilization")),
                                            MeanExact(Column(group, "cost"))),
                         std_cost |-> StdExact(Column(group, "cost")),
                         std_utilization |-> StdExact(Column(group, "cpu_utilization"))]]]]

\* analyze_task_completion(task_df) of more_analysis.py as a table; an
\* exception is logged and gives pd.DataFrame()
TaskCompletionMetrics(task_df) ==
    IF MoreFilter(task_df).rows = <<>> THEN [err |-> "", table |-> NoTable]
    ELSE IF ~({"task_state", "finish_time", "creation_time"} \subseteq task_df.columns)
    THEN [err |-> "KeyError", table |-> NoTable]
    ELSE [err |-> "",
          table |-> [columns |-> {"scheduler", "topology", "total_tasks",
                                  "completed_tasks", "completion_rate",
                                  "avg_completion_time", "median_completion_time",
                                  "std_completion_time"},
                     rows |-> MoreAnalyzeTaskCompletion(task_df.rows)]]

\* metrics['pattern'] = pattern
WithPattern(table, pattern) ==
    [columns |-> table.columns \cup {"pattern"},
     rows |-> [i \in 1..Len(table.rows) |-> [pattern |-> pattern] @@ table.rows[i]]]

\* save_results: the two CSV files, then the summary, whose groupby fails on
\* a table without the column 'scheduler'; the failure is logged
SaveResults(metrics_df, completion_df) ==
    IF "scheduler" \in metrics_df.columns /\ "scheduler" \in completion_df.columns
    THEN [err |-> "", written |-> {"efficiency_metrics", "completion_metrics", "summary"}]
    ELSE [err |-> "KeyError", written |-> {"efficiency_metrics", "completion_metrics"}]

\* create_visualizations: it reads metrics_df['scheduler'] and the columns of
\* completion_df; the failure is logged
CreateVisualizations(metrics_df, completion_df) ==
    IF "scheduler" \in metrics_df.columns /\ "scheduler" \in completion_df.columns
    THEN [err |-> ""] ELSE [err |-> "KeyError"]

\* a pattern without valid data skipped without a record
NoValidDataLogsNone(pattern) == <<>>

\* the warning of the branch that skips a pattern without valid data
NoValidDataLogs(pattern) == <<LogRecord("warning", pattern, "main")>>

\* the body of the loop of main (lines 335 to 373) for one pattern: the
\* records logged, the tables appended to the two lists, the files written
MorePattern(files, base_path, pattern) ==
    LET r == LoadData(files, base_path, pattern)
        host_data == MoreFilter(r.host)
        task_data == MoreFilter(r.task)
        efficiency == CalculateEfficiencyMetrics(host_data)
        completion == TaskCompletionMetrics(task_data)
        efficiency_metrics == WithPattern(efficiency.table, pattern)
        completion_metrics == WithPattern(completion.table, pattern)
        visualizations == CreateVisualizations(efficiency_metrics, completion_metrics)
        save == SaveResults(efficiency_metrics, completion_metrics)
        Logged(e, by) == IF e # "" THEN <<LogRecord("error", pattern, by)>> ELSE <<>>
    IN  IF r.err # ""
        THEN [err |-> r.err, logs |-> Logged(r.err, "main"),
              efficiency |-> <<>>, completion |-> <<>>, written |-> {}]
        ELSE IF Len(host_data.rows) = 0 \/ Len(task_data.rows) = 0
        THEN [err |-> "", logs |-> NoValidDataLogs(pattern),
              efficiency |-> <<>>, completion |-> <<>>, written |-> {}]
        ELSE [err |-> "",
              logs |-> Logged(efficiency.err, "calculate_efficiency_metrics")
                       \o Logged(completion.err, "analyze_task_completion")
                       \o Logged(visualizations.err, "create_visualizations")
                       \o Logged(save.err, "save_results"),
              efficiency |-> <<efficiency_metrics>>,
              completion |-> <<completion_metrics>>,
              written |-> save.written]

(***************************************************************************)
(* State                                                                   *)
(***************************************************************************)
VARIABLES
    calls,          \* the classifications made so far: function, inputs, result
    df,             \* aggregate_runs: the table passed in
    group_cols,     \* aggregate_runs: the caller's list of group keys
    metric_cols,    \* aggregate_runs: the caller's list of metrics
    requested,      \* the keys the caller put in group_cols before the call
    grouped,        \* what aggregate_runs(df, group_cols, metric_cols) returned
    explicit,       \* what the call with topology and scheduler appended returned
    task_df,        \* the task table a load returned
    self_task_df,   \* ExperimentAnalyzer.task_df: filtered and labelled
    completion_stats,   \* what ExperimentAnalyzer.analyze_task_completion returned
    task_metrics,   \* what more_analysis.analyze_task_completion returned
    host_df,        \* ExperimentAnalyzer.host_df: filtered and labelled
    cost_metrics,   \* what ExperimentAnalyzer.analyze_cost_metrics returned
    comparison,     \* what ExperimentAnalyzer.comparative_analysis returned
    efficiency_metrics,     \* what calculate_efficiency_metrics returned
    fs,             \* the files of the pattern: registry and raw-output tree
    loader,         \* the loader called: read_parquet_files or load_data
    file_type,      \* read_parquet_files: the kind of table asked for
    status,         \* of the call: "init", "running", "returned" or "raised"
    err,            \* the exception the call raised, "" for none
    remaining,      \* the scenario directories the loop has yet to visit
    dfs,            \* dfs of read_parquet_files, host_dfs of load_data
    task_dfs,       \* task_dfs of load_data
    loaded,         \* the tables the call returned
    efficiency,     \* cost efficiency of every row of the aggregate
    program,        \* the driver run: analyze_experiments or more_analysis
    world,          \* the files of every pattern of the driver's list
    pc,             \* where main is: "start", "loop", "except", "cross", or how it ended
    todo,           \* the patterns the loop of main has yet to take
    log,            \* the records logged so far
    exc,            \* the exception that left the loop of main, "" for none
    results,        \* the CSV files written so far, pattern by pattern
    all_efficiency_metrics,     \* more_analysis.main: the list of that name
    all_completion_metrics,     \* more_analysis.main: the list of that name
    cross_pattern,  \* the two tables of the cross-pattern analysis
    database,       \* the user records of the store, by userId
    before,         \* the user records when the last request arrived
    handled,        \* the last request the user endpoint handled
    response        \* the Response the handler returned for it

classifyVars == <<calls>>

aggVars == <<df, group_cols, metric_cols, requested, grouped, explicit>>

taskVars == <<task_df, self_task_df, completion_stats, task_metrics>>

cmpVars == <<host_df, cost_metrics, comparison, efficiency_metrics>>

loadVars == <<fs, loader, file_type, status, err, remaining, dfs, task_dfs, loaded,
              efficiency>>

mainVars == <<program, world, pc, todo, log, exc, results, all_efficiency_metrics,
              all_completion_metrics, cross_pattern>>

userVars == <<database, before, handled, response>>

vars == <<classifyVars, aggVars, taskVars, cmpVars, loadVars, mainVars, userVars>>

\* no call made yet
NoResult == [err |-> "none", group_cols |-> <<>>, index |-> <<>>, metrics |-> <<>>, rows |-> <<>>]

IdleClassify == calls = <<>>

IdleAgg ==
    /\ df = NoTable
    /\ group_cols = <<>>
    /\ metric_cols = <<>>
    /\ requested = <<>>
    /\ grouped = NoResult
    /\ explicit = NoResult

\* no analysis made yet
NotRun == [err |-> "none"]

IdleTask ==
    /\ task_df = <<>>
    /\ self_task_df = <<>>
    /\ completion_stats = NotRun
    /\ task_metrics = NotRun

IdleCmp ==
    /\ host_df = NoTable
    /\ cost_metrics = NotRun
    /\ comparison = NotRun
    /\ efficiency_metrics = NotRun

\* a pattern without files
NoFiles ==
    [base_path |-> S_output, raw_exists |-> FALSE, trackr_exists |-> FALSE,
     trackr |-> <<>>, listing |-> <<>>, contents |-> <<>>]

IdleLoad ==
    /\ fs = NoFiles
    /\ loader = "none"
    /\ file_type = "none"
    /\ status = "init"
    /\ err = ""
    /\ remaining = <<>>
    /\ dfs = <<>>
    /\ task_dfs = <<>>
    /\ loaded = <<>>
    /\ efficiency = <<>>

IdleUser ==
    /\ database = <<>>
    /\ before = <<>>
    /\ handled = <<>>
    /\ response = <<>>

IdleMain ==
    /\ program = "none"
    /\ world = <<>>
    /\ pc = "idle"
    /\ todo = <<>>
    /\ log = <<>>
    /\ exc = ""
    /\ results = <<>>
    /\ all_efficiency_metrics = <<>>
    /\ all_completion_metrics = <<>>
    /\ cross_pattern = <<>>

(***************************************************************************)
(* The topology classifiers, call by call                                  *)
(***************************************************************************)
MaxCalls == 2

ScenarioDirs == {<<"0">>, <<"1">>}

ScenarioPaths == {PathJoin(PatternPath(b, S_diurnal), d) : b \in BasePaths, d \in ScenarioDirs}

Call(fn, has_entry, path, scenario_path, result) ==
    [fn |-> fn, has_entry |-> has_entry, path |-> path,
     scenario_path |-> scenario_path, result |-> result]

\* read_parquet_files classifies the entry of a scenario directory
ClassifyRead ==
    /\ Len(calls) < MaxCalls
    /\ \E p \in TopologyPaths, sp \in ScenarioPaths :
          LET trackr_data == <<Entry(p, S_CostEfficient), Entry(p, S_CostEfficient)>>
              info == ScenarioInfo(trackr_data, Basename(sp))
          IN  calls' = Append(calls, Call("read_parquet_files", TRUE, p, sp, info.topology))
    /\ UNCHANGED <<userVars, mainVars, aggVars, taskVars, cmpVars, loadVars>>

\* get_experiment_mapping classifies every entry of the registry
ClassifyMapping ==
    /\ Len(calls) < MaxCalls
    /\ \E p \in TopologyPaths, sp \in ScenarioPaths :
          LET trackr_data == <<Entry(p, S_CostEfficient)>>
          IN  calls' = Append(calls, Call("get_experiment_mapping", TRUE, p, sp,
                                          ExperimentMapping(trackr_data)[1].topology))
    /\ UNCHANGED <<userVars, mainVars, aggVars, taskVars, cmpVars, loadVars>>

\* parse_topology_size classifies a scenario directory
ClassifyParse ==
    /\ Len(calls) < MaxCalls
    /\ \E p \in TopologyPaths, sp \in ScenarioPaths, trackr_exists \in BOOLEAN :
          LET configs == <<Entry(p, S_CostEfficient)>>
              has == HasConfig(sp, trackr_exists, configs)
          IN  calls' = Append(calls, Call("parse_topology_size", has,
                                          IF has THEN p ELSE <<>>, sp,
                                          ParseTopologySize(sp, trackr_exists, configs)))
    /\ UNCHANGED <<userVars, mainVars, aggVars, taskVars, cmpVars, loadVars>>

InitClassify ==
    calls = <<>> /\ IdleAgg /\ IdleTask /\ IdleCmp /\ IdleLoad /\ IdleMain /\ IdleUser

NextClassify == ClassifyRead \/ ClassifyMapping \/ ClassifyParse

SpecClassify == InitClassify /\ [][NextClassify]_vars

\* C10 as claimed: the class a function gives to a registry entry is one of the
\* four classes and is decided by the entry's topology path alone: two calls
\* of the same function with the same topology path give the same class,
\* whatever the scenario directory path and the calls made before.
C10_ClassOfPathAlone ==
    /\ \A i \in 1..Len(calls) : calls[i].result \in TopologyClasses
    /\ \A i, j \in 1..Len(calls) :
          (/\ calls[i].fn = calls[j].fn
           /\ calls[i].has_entry /\ calls[j].has_entry
           /\ calls[i].path = calls[j].path)
          => calls[i].result = calls[j].result

(***************************************************************************)
(* aggregate_runs on the tables a load can return                          *)
(***************************************************************************)
MaxRows == 3

\* the registry the rows of the aggregated tables were tagged from
AggRegistry == <<Entry(P_small, S_CostEfficient), Entry(P_large, S_PredictiveCost)>>

AggScenarioDirs == {<<"0">>, <<"1">>}

Seeds == {0, 1}

\* the (cost, cpu_utilization) samples of the host tables
Samples == {[cost |-> 0, cpu_utilization |-> 1], [cost |-> 3, cpu_utilization |-> 2]}

\* a host row as read_parquet_files tags it (lines 54 to 57)
HostRow(trackr_data, scenario_num, seed, sample) ==
    [topology |-> ScenarioInfo(trackr_data, scenario_num).topology,
     scheduler |-> ScenarioInfo(trackr_data, scenario_num).scheduler,
     scenario |-> ParseInt(scenario_num),
     seed |-> seed,
     cost |-> sample.cost,
     cpu_utilization |-> sample.cpu_utilization]

HostColumns == {"topology", "scheduler", "scenario", "seed", "cost", "cpu_utilization"}

HostRows == {HostRow(AggRegistry, d, sd, m) : d \in AggScenarioDirs, sd \in Seeds, m \in Samples}

\* a table without its tag columns topology and scheduler
Untagged(t) ==
    [columns |-> t.columns \ {"topology", "scheduler"},
     rows |-> [i \in 1..Len(t.rows) |->
                 [c \in t.columns \ {"topology", "scheduler"} |-> t.rows[i][c]]]]

TaggedTables == {[columns |-> HostColumns, rows |-> r] : r \in BoundedSeq(HostRows, MaxRows)}

AggTables == TaggedTables \cup {Untagged(t) : t \in TaggedTables}

GroupColChoices == {<<"scenario">>, <<"seed">>, <<"seed", "topology">>}

MetricChoices == {<<"cost", "cpu_utilization">>}

\* group_cols with topology and scheduler appended by the caller
ExplicitCols(cols) ==
    LET g1 == IF "topology" \notin Range(cols) THEN Append(cols, "topology") ELSE cols
    IN  IF "scheduler" \notin Range(g1) THEN Append(g1, "scheduler") ELSE g1

InitAgg ==
    /\ IdleClassify
    /\ IdleTask
    /\ IdleCmp
    /\ IdleLoad
    /\ IdleMain
    /\ IdleUser
    /\ df \in AggTables
    /\ group_cols \in GroupColChoices
    /\ metric_cols \in MetricChoices
    /\ requested = group_cols
    /\ grouped = NoResult
    /\ explicit = NoResult

\* the call aggregate_runs(df, group_cols, metric_cols); the appends are made
\* to the caller's list
Aggregate ==
    /\ grouped = NoResult
    /\ LET r == AggregateRuns(df, group_cols, metric_cols)
       IN  /\ grouped' = r
           /\ group_cols' = r.group_cols
    /\ UNCHANGED <<userVars, mainVars, classifyVars, taskVars, cmpVars, loadVars, df, metric_cols, requested, explicit>>

\* the same call on a new list that names topology and scheduler itself
AggregateExplicit ==
    /\ grouped # NoResult
    /\ explicit = NoResult
    /\ explicit' = AggregateRuns(df, ExplicitCols(requested), metric_cols)
    /\ UNCHANGED <<userVars, mainVars, classifyVars, taskVars, cmpVars, loadVars, df, group_cols, metric_cols, requested, grouped>>

NextAgg == Aggregate \/ AggregateExplicit

SpecAgg == InitAgg /\ [][NextAgg]_vars

\* the rows of df that make up the group of a row of grouped
Members(g) == SelectRows(df.rows, grouped.index, g.key)

\* C2: once both calls returned on a table that has the columns topology and
\* scheduler, the call with keys that leave them out and the call with them
\* appended to the keys gave the same outcome, the same groups and the same
\* mean and std of every metric.
C2_ExplicitKeysAgree ==
    (/\ grouped # NoResult
     /\ explicit # NoResult
     /\ {"topology", "scheduler"} \subseteq df.columns)
    => /\ grouped.err = explicit.err
       /\ grouped.index = explicit.index
       /\ grouped.rows = explicit.rows

\* both calls returned several groups for keys that leave topology out
C2_Witness ==
    /\ explicit # NoResult
    /\ grouped.err = ""
    /\ {"topology", "scheduler"} \subseteq df.columns
    /\ "topology" \notin Range(requested)
    /\ Len(grouped.rows) >= 2
    /\ Len(df.rows) > Len(grouped.rows)

\* C3 as claimed: a group of the aggregate whose rows all come from one seed
\* has the undefined value as the std of every metric.
C3_SingleSeedStdUndefined ==
    \A i \in 1..Len(grouped.rows) : \A m \in Range(grouped.metrics) :
        (\A a, b \in Range(Members(grouped.rows[i])) : a.seed = b.seed)
        => grouped.rows[i].stats[m].std = NaN

MaxTaskRows == 3

\* a policy type a registry can hold beside the three the analysis names
S_Random == <<"R", "a", "n", "d", "o", "m">>

TaskSchedulers == {S_CostEfficient, S_PredictiveCost, S_SimpleCost, S_Random}

TaskIds == {1, 2}

TaskStates == {"COMPLETED", "TERMINATED", "ERROR", "RUNNING"}

\* a row of task.parquet with the tags of a load; task 1 was created at 0 and
\* task 2 at 500, a task that completes finishes at 3000
TaskRow(scheduler, task_id, state) ==
    [topology |-> S_small,
     scheduler |-> scheduler,
     task_id |-> task_id,
     task_state |-> state,
     creation_time |-> (task_id - 1) * 500,
     finish_time |-> IF state = "COMPLETED" THEN 3000 ELSE (task_id - 1) * 500]

TaskRows == {TaskRow(sc, id, st) : sc \in TaskSchedulers, id \in TaskIds, st \in TaskStates}

InitTask ==
    /\ IdleClassify
    /\ IdleAgg
    /\ IdleCmp
    /\ IdleLoad
    /\ IdleMain
    /\ IdleUser
    /\ task_df \in BoundedSeq(TaskRows, MaxTaskRows)
    /\ self_task_df = <<>>
    /\ completion_stats = NotRun
    /\ task_metrics = NotRun

\* ExperimentAnalyzer.__init__, lines 67 to 104, then analyze_task_completion
AnalyzerTaskCompletion ==
    /\ completion_stats = NotRun
    /\ self_task_df' = AnalyzerTable(task_df, S_diurnal)
    /\ completion_stats' = AnalyzeTaskCompletion(AnalyzerTable(task_df, S_diurnal))
    /\ UNCHANGED <<userVars, mainVars, classifyVars, aggVars, cmpVars, loadVars, task_df, task_metrics>>

\* more_analysis: analyze_task_completion(task_df)
MoreTaskCompletion ==
    /\ task_metrics = NotRun
    /\ task_metrics' = [err |-> "", rows |-> MoreAnalyzeTaskCompletion(task_df)]
    /\ UNCHANGED <<userVars, mainVars, classifyVars, aggVars, cmpVars, loadVars, task_df, self_task_df, completion_stats>>

NextTask == AnalyzerTaskCompletion \/ MoreTaskCompletion

SpecTask == InitTask /\ [][NextTask]_vars

\* a + b + c <= 1 for three finite floats
SumAtMostOne(a, b, c) ==
    a.n * b.d * c.d + b.n * a.d * c.d + c.n * a.d * b.d <= a.d * b.d * c.d

\* the task_ids seen in rows, and the state of the last row of a task_id
TasksOf(rows) == {rows[i].task_id : i \in 1..Len(rows)}

LastStateOf(rows, id) ==
    rows[CHOOSE i \in 1..Len(rows) :
            /\ rows[i].task_id = id
            /\ \A j \in (i + 1)..Len(rows) : rows[j].task_id # id].task_state

\* tasks counted once, by last state: the share of the tasks of rows whose last
\* state is state
LastStateRate(rows, state) ==
    Num(Cardinality({id \in TasksOf(rows) : LastStateOf(rows, id) = state}),
        Cardinality(TasksOf(rows)))

\* the three rates of every row of ExperimentAnalyzer's statistics add up to
\* at most 1
AnalyzerRatesAtMostOne ==
    completion_stats.err = ""
    => \A l \in Range(completion_stats.index) :
          completion_stats.stats[l].total_tasks > 0
          => SumAtMostOne(completion_stats.stats[l].completion_rate,
                          completion_stats.stats[l].termination_rate,
                          completion_stats.stats[l].error_rate)

\* the completion rate of every row of the cross-pattern program's statistics
\* (it reports no other rate) is at most 1
MoreRatesAtMostOne ==
    task_metrics.err = ""
    => \A i \in 1..Len(task_metrics.rows) :
          task_metrics.rows[i].total_tasks > 0
          => SumAtMostOne(task_metrics.rows[i].completion_rate, Num(0, 1), Num(0, 1))

\* C5 as claimed: in the task statistics of either program, a row with
\* total_tasks > 0 has completion_rate + termination_rate + error_rate <= 1.0.
C5_RatesSumAtMostOne == AnalyzerRatesAtMostOne /\ MoreRatesAtMostOne

\* ExperimentAnalyzer counts every task of a label once, by its last state
AnalyzerCountsLastState ==
    completion_stats.err = ""
    => \A l \in Range(completion_stats.index) :
          LET mine == SelectSeq(self_task_df, LAMBDA r : r.scenario_label = l)
          IN  /\ completion_stats.stats[l].total_tasks = Cardinality(TasksOf(mine))
              /\ completion_stats.stats[l].completion_rate = LastStateRate(mine, "COMPLETED")
              /\ completion_stats.stats[l].termination_rate = LastStateRate(mine, "TERMINATED")
              /\ completion_stats.stats[l].error_rate = LastStateRate(mine, "ERROR")

\* the cross-pattern program counts every task of a group once, by its last
\* state
MoreCountsLastState ==
    task_metrics.err = ""
    => \A i \in 1..Len(task_metrics.rows) :
          LET mine == SelectSeq(task_df,
                                LAMBDA r : /\ r.scheduler = task_metrics.rows[i].scheduler
                                           /\ r.topology = task_metrics.rows[i].topology)
          IN  /\ task_metrics.rows[i].total_tasks = Cardinality(TasksOf(mine))
              /\ task_metrics.rows[i].completion_rate = LastStateRate(mine, "COMPLETED")

\* C6 as claimed: the task statistics of either program count each task once,
\* by its last observed state: total_tasks is the number of distinct task_ids
\* and each rate is the number of task_ids whose last state is that terminal
\* state divided by the number of distinct task_ids.
C6_TasksCountedOnceByLastState == AnalyzerCountsLastState /\ MoreCountsLastState

(***************************************************************************)
(* ExperimentAnalyzer: from the host table to the comparison               *)
(***************************************************************************)
MaxCostRows == 2

MaxStatRows == 1

\* the host rows of seed 0 of the two scenarios
CmpHostRows == {HostRow(AggRegistry, d, 0, m) : d \in AggScenarioDirs, m \in Samples}

\* a registry whose scenarios share topology classes and schedulers
CmpLabelRegistry ==
    <<Entry(P_small, S_CostEfficient), Entry(P_small, S_PredictiveCost),
      Entry(P_large, S_CostEfficient), Entry(P_plain, S_PredictiveCost)>>

\* one host row of seed 0 of each of its scenarios
CmpLabelRows ==
    {HostRow(CmpLabelRegistry, d, 0, [cost |-> 3, cpu_utilization |-> 2]) :
        d \in {<<"0">>, <<"1">>, <<"2">>, <<"3">>}}

\* self.host_df: a loaded host table after the filter and the label of __init__
CmpHostTables ==
    {[columns |-> HostColumns \cup {"scenario_label"},
      rows |-> AnalyzerTable(r, S_diurnal)] :
        r \in BoundedSeq(CmpHostRows, MaxCostRows) \cup [1..2 -> CmpLabelRows]}

\* the statistics analyze_task_completion returns for a task table
CompletionTables ==
    {t \in {AnalyzeTaskCompletion(AnalyzerTable(r, S_diurnal)) :
               r \in BoundedSeq(TaskRows, MaxStatRows)} : t.err = ""}

InitCmp ==
    /\ IdleClassify
    /\ IdleAgg
    /\ IdleLoad
    /\ IdleMain
    /\ IdleUser
    /\ task_df = <<>>
    /\ self_task_df = <<>>
    /\ completion_stats \in CompletionTables
    /\ task_metrics = NotRun
    /\ host_df \in CmpHostTables
    /\ cost_metrics = NotRun
    /\ comparison = NotRun
    /\ efficiency_metrics = NotRun

\* cost_stats = analyzer.analyze_cost_metrics()
CostMetrics ==
    /\ cost_metrics = NotRun
    /\ cost_metrics' = AnalyzeCostMetrics(host_df)
    /\ UNCHANGED <<userVars, mainVars, classifyVars, aggVars, taskVars, loadVars, host_df, comparison,
                   efficiency_metrics>>

\* comparison = analyzer.comparative_analysis(cost_stats, task_stats)
Compare ==
    /\ cost_metrics # NotRun
    /\ cost_metrics.err = ""
    /\ comparison = NotRun
    /\ comparison' = ComparativeAnalysis(cost_metrics, completion_stats)
    /\ UNCHANGED <<userVars, mainVars, classifyVars, aggVars, taskVars, loadVars, host_df, cost_metrics,
                   efficiency_metrics>>

\* efficiency_metrics = calculate_efficiency_metrics(host_data) of
\* more_analysis.main, on the same host table
EfficiencyMetrics ==
    /\ efficiency_metrics = NotRun
    /\ efficiency_metrics' = CalculateEfficiencyMetrics(host_df)
    /\ UNCHANGED <<userVars, mainVars, classifyVars, aggVars, taskVars, loadVars, host_df, cost_metrics,
                   comparison>>

NextCmp == CostMetrics \/ Compare \/ EfficiencyMetrics

SpecCmp == InitCmp /\ [][NextCmp]_vars

\* C1: the comparison that comparative_analysis returns has exactly one row
\* for every row of the cost aggregate, in the same order and with the same
\* label, whichever of the labels have completion statistics.
C1_OneRowPerCostRow ==
    comparison # NotRun
    => /\ comparison.err = ""
       /\ Len(comparison.rows) = Len(cost_metrics.rows)
       /\ \A i \in 1..Len(comparison.rows) :
             comparison.rows[i].scenario_label = cost_metrics.rows[i].scenario_label

\* a comparison of two cost rows, one with and one without completion statistics
C1_Witness ==
    /\ comparison # NotRun
    /\ Len(cost_metrics.rows) = 2
    /\ \E i, j \in 1..Len(cost_metrics.rows) :
          /\ cost_metrics.rows[i].scenario_label \in Range(completion_stats.index)
          /\ cost_metrics.rows[j].scenario_label \notin Range(completion_stats.index)

(***************************************************************************)
(* A load of one pattern by either loader, scenario directory by scenario  *)
(* directory, and the aggregate of a loaded host table                     *)
(***************************************************************************)
MaxDirs == 2

S_logs == <<"l", "o", "g", "s">>

S_tmp == <<"t", "m", "p">>

\* the names os.listdir(pattern_path) can return
DirNames == {<<"0">>, <<"1">>, S_logs}

\* os.listdir returns every name once, in any order
Listings == {l \in BoundedSeq(DirNames, MaxDirs) : \A i, j \in 1..Len(l) : l[i] = l[j] => i = j}

HostFile(rows) == [columns |-> {"cost", "cpu_utilization"}, rows |-> rows]

TaskFile(rows) ==
    [columns |-> {"task_id", "task_state", "creation_time", "finish_time"}, rows |-> rows]

TaskEvent(task_id, state, creation_time, finish_time) ==
    [task_id |-> task_id, task_state |-> state,
     creation_time |-> creation_time, finish_time |-> finish_time]

SeedDir(name, files, host, task) ==
    [name |-> name, files |-> files, host |-> host, task |-> task]

\* seed=0 with two host rows and the two observations of one task
SeedsTwoRows ==
    <<SeedDir(S_seedEq \o <<"0">>, {"host", "task"},
              HostFile(<<[cost |-> 100, cpu_utilization |-> 50],
                         [cost |-> 200, cpu_utilization |-> 70]>>),
              TaskFile(<<TaskEvent(1, "RUNNING", 0, 0),
                         TaskEvent(1, "COMPLETED", 0, 3000)>>))>>

\* seed=0 with one host row and no task file
SeedsOneRow ==
    <<SeedDir(S_seedEq \o <<"0">>, {"host"},
              HostFile(<<[cost |-> 300, cpu_utilization |-> 90]>>), NoTable)>>

\* a directory that is no seed, then seed=1 with a task file only
SeedsTaskOnly ==
    <<SeedDir(S_tmp, {}, NoTable, NoTable),
      SeedDir(S_seedEq \o <<"1">>, {"task"}, NoTable,
              TaskFile(<<TaskEvent(2, "ERROR", 500, 500)>>))>>

\* seed=0 whose two files hold no rows
SeedsNoRows ==
    <<SeedDir(S_seedEq \o <<"0">>, {"host", "task"}, HostFile(<<>>), TaskFile(<<>>))>>

\* seed=x, whose name int() cannot read, then seed=1 with both files
SeedsUnreadable ==
    <<SeedDir(S_seedEq \o <<"x">>, {"host", "task"},
              HostFile(<<[cost |-> 100, cpu_utilization |-> 50]>>),
              TaskFile(<<TaskEvent(1, "COMPLETED", 0, 3000)>>)),
      SeedDir(S_seedEq \o <<"1">>, {"host", "task"},
              HostFile(<<[cost |-> 300, cpu_utilization |-> 90]>>),
              TaskFile(<<TaskEvent(2, "ERROR", 500, 500)>>))>>

\* seed=0 and seed=1 of the same workload: task 1 completes in one repetition
\* and fails in the other
SeedsTwoSeeds ==
    <<SeedDir(S_seedEq \o <<"0">>, {"host", "task"},
              HostFile(<<[cost |-> 100, cpu_utilization |-> 50]>>),
              TaskFile(<<TaskEvent(1, "COMPLETED", 0, 3000)>>)),
      SeedDir(S_seedEq \o <<"1">>, {"host", "task"},
              HostFile(<<[cost |-> 200, cpu_utilization |-> 70]>>),
              TaskFile(<<TaskEvent(1, "ERROR", 0, 0)>>))>>

\* what os.listdir(scenario_path) can return, with the files below it
SeedListings ==
    {<<>>, SeedsTwoRows, SeedsOneRow, SeedsTaskOnly, SeedsNoRows, SeedsUnreadable,
     SeedsTwoSeeds}

\* the registries of the loads: two entries, one entry, and two entries of
\* which the second has no allocationPolicy
Registries ==
    {AggRegistry, <<Entry(P_small, S_CostEfficient)>>,
     <<Entry(P_small, S_CostEfficient), EntryNoPolicy(P_large)>>}

S_costefficient_small == S_costefficient \o <<"_">> \o S_small

\* the base_path arguments of the loads
LoadBasePaths == {S_output, S_costefficient_small}

DigitNames(l) == {l[i] : i \in {j \in 1..Len(l) : IsDigit(l[j])}}

\* the patterns with a raw-output directory that lists l
FileSystemsOf(l) ==
    {[base_path |-> b, raw_exists |-> TRUE, trackr_exists |-> te,
      trackr |-> IF te THEN reg ELSE <<>>, listing |-> l, contents |-> c] :
        b \in LoadBasePaths, te \in BOOLEAN, reg \in Registries,
        c \in [DigitNames(l) -> SeedListings]}

FileSystems ==
    {NoFiles, [NoFiles EXCEPT !.trackr_exists = TRUE, !.trackr = AggRegistry]}
    \cup UNION {FileSystemsOf(l) : l \in Listings}

Loads == {<<"read_parquet_files", "host">>, <<"read_parquet_files", "task">>,
          <<"load_data", "both">>}

Init ==
    /\ IdleClassify
    /\ IdleAgg
    /\ IdleTask
    /\ IdleCmp
    /\ IdleMain
    /\ IdleUser
    /\ fs \in FileSystems
    /\ \E l \in Loads : loader = l[1] /\ file_type = l[2]
    /\ loader = "read_parquet_files" => fs.base_path = S_output
    /\ status = "init"
    /\ err = ""
    /\ remaining = <<>>
    /\ dfs = <<>>
    /\ task_dfs = <<>>
    /\ loaded = <<>>
    /\ efficiency = <<>>

Raise(e) ==
    /\ status' = "raised"
    /\ err' = e

\* read_parquet_files up to its loop: read_trackr, then os.listdir
ReadParquetStart ==
    /\ loader = "read_parquet_files"
    /\ status = "init"
    /\ IF ~fs.trackr_exists \/ ~fs.raw_exists
       THEN Raise("FileNotFoundError") /\ UNCHANGED remaining
       ELSE status' = "running" /\ remaining' = fs.listing /\ UNCHANGED err
    /\ UNCHANGED <<userVars, mainVars, classifyVars, aggVars, taskVars, cmpVars, fs, loader, file_type,
                   dfs, task_dfs, loaded, efficiency>>

\* one pass of the loop of read_parquet_files over the scenario directories
ReadParquetScenario ==
    /\ loader = "read_parquet_files"
    /\ status = "running"
    /\ remaining # <<>>
    /\ LET scenario_num == Head(remaining)
           r == ReadScenario(fs.trackr, scenario_num,
                             IF IsDigit(scenario_num) THEN fs.contents[scenario_num]
                             ELSE <<>>,
                             file_type)
       IN  /\ dfs' = dfs \o r.dfs
           /\ IF r.err # "" THEN Raise(r.err) ELSE UNCHANGED <<status, err>>
    /\ remaining' = Tail(remaining)
    /\ UNCHANGED <<userVars, mainVars, classifyVars, aggVars, taskVars, cmpVars, fs, loader, file_type,
                   task_dfs, loaded, efficiency>>

\* the end of read_parquet_files: the check of dfs and the concat
ReadParquetEnd ==
    /\ loader = "read_parquet_files"
    /\ status = "running"
    /\ remaining = <<>>
    /\ IF dfs = <<>>
       THEN Raise("ValueError") /\ UNCHANGED loaded
       ELSE status' = "returned" /\ loaded' = <<Concat(dfs)>> /\ UNCHANGED err
    /\ UNCHANGED <<userVars, mainVars, classifyVars, aggVars, taskVars, cmpVars, fs, loader, file_type,
                   remaining, dfs, task_dfs, efficiency>>

\* load_data up to its loop: the check of pattern_path, then os.listdir
LoadDataStart ==
    /\ loader = "load_data"
    /\ status = "init"
    /\ IF ~fs.raw_exists
       THEN Raise("FileNotFoundError") /\ UNCHANGED remaining
       ELSE status' = "running" /\ remaining' = fs.listing /\ UNCHANGED err
    /\ UNCHANGED <<userVars, mainVars, classifyVars, aggVars, taskVars, cmpVars, fs, loader, file_type,
                   dfs, task_dfs, loaded, efficiency>>

\* one pass of the loop of load_data over the scenario directories
LoadDataScenario ==
    /\ loader = "load_data"
    /\ status = "running"
    /\ remaining # <<>>
    /\ LET scenario == Head(remaining)
           r == LoadScenario(scenario, PatternPath(fs.base_path, S_diurnal),
                             IF IsDigit(scenario) THEN fs.contents[scenario] ELSE <<>>,
                             fs.trackr_exists, fs.trackr)
       IN  /\ dfs' = dfs \o r.host_dfs
           /\ task_dfs' = task_dfs \o r.task_dfs
    /\ remaining' = Tail(remaining)
    /\ UNCHANGED <<userVars, mainVars, classifyVars, aggVars, taskVars, cmpVars, fs, loader, file_type,
                   status, err, loaded, efficiency>>

\* the end of load_data: the check of both lists and the two concats
LoadDataEnd ==
    /\ loader = "load_data"
    /\ status = "running"
    /\ remaining = <<>>
    /\ IF dfs = <<>> \/ task_dfs = <<>>
       THEN Raise("ValueError") /\ UNCHANGED loaded
       ELSE status' = "returned" /\ loaded' = <<Concat(dfs), Concat(task_dfs)>>
            /\ UNCHANGED err
    /\ UNCHANGED <<userVars, mainVars, classifyVars, aggVars, taskVars, cmpVars, fs, loader, file_type,
                   remaining, dfs, task_dfs, efficiency>>

\* aggregate_runs(host_df, ['scenario'], ['cost', 'cpu_utilization']) on the
\* host table read_parquet_files returned, then the cost efficiency of
\* analyze_cost_metrics (lines 242 to 245)
AggregateLoaded ==
    /\ loader = "read_parquet_files"
    /\ file_type = "host"
    /\ status = "returned"
    /\ grouped = NoResult
    /\ LET r == AggregateRuns(loaded[1], <<"scenario">>, <<"cost", "cpu_utilization">>)
       IN  /\ df' = loaded[1]
           /\ requested' = <<"scenario">>
           /\ metric_cols' = <<"cost", "cpu_utilization">>
           /\ group_cols' = r.group_cols
           /\ grouped' = r
           /\ efficiency' = [i \in 1..Len(r.rows) |->
                               Div(r.rows[i].stats["cpu_utilization"].mean,
                                   r.rows[i].stats["cost"].mean)]
    /\ UNCHANGED <<userVars, mainVars, classifyVars, taskVars, cmpVars, explicit, fs, loader, file_type,
                   status, err, remaining, dfs, task_dfs, loaded>>

Next ==
    \/ ReadParquetStart
    \/ ReadParquetScenario
    \/ ReadParquetEnd
    \/ LoadDataStart
    \/ LoadDataScenario
    \/ LoadDataEnd
    \/ AggregateLoaded

Spec == Init /\ [][Next]_vars

\* the scenario directories the loop has visited
Visited ==
    IF status = "init" THEN <<>>
    ELSE SubSeq(fs.listing, 1, Len(fs.listing) - Len(remaining))

\* a scenario directory whose index has no registry entry
OutOfRange(d) == IsDigit(d) /\ ParseInt(d) >= Len(fs.trackr)

\* a row of a table of dfs is a row of a file of a visited scenario directory
\* with a registry entry, under the scenario, seed and scheduler of its place
OwnRow(row, kind) ==
    \E i \in 1..Len(Visited) :
        /\ IsDigit(Visited[i])
        /\ ~OutOfRange(Visited[i])
        /\ row.scenario = ParseInt(Visited[i])
        /\ row.scheduler = fs.trackr[ParseInt(Visited[i]) + 1].policyType
        /\ \E j \in 1..Len(fs.contents[Visited[i]]) :
              LET seed_dir == fs.contents[Visited[i]][j]
              IN  /\ kind \in seed_dir.files
                  /\ seed_dir.name = S_seedEq \o SplitEq(seed_dir.name)[2]
                  /\ row.seed = ParseInt(SplitEq(seed_dir.name)[2])
                  /\ \E k \in 1..Len(FileOf(seed_dir, kind).rows) :
                        \A c \in FileOf(seed_dir, kind).columns :
                            row[c] = FileOf(seed_dir, kind).rows[k][c]

OwnRows(tables, kind) ==
    \A t \in 1..Len(tables) : \A r \in 1..Len(tables[t].rows) :
        OwnRow(tables[t].rows[r], kind)

\* once a scenario directory without a registry entry was visited, the load
\* has stopped with IndexError and holds the rows of the valid scenarios as
\* they are on disk
OutOfRangeStops ==
    (fs.trackr_exists /\ \E i \in 1..Len(Visited) : OutOfRange(Visited[i]))
    => /\ status = "raised"
       /\ err = "IndexError"
       /\ OwnRows(dfs, IF loader = "load_data" THEN "host" ELSE file_type)
       /\ OwnRows(task_dfs, "task")

\* C7 as claimed: a load by either loader stops with the out-of-range error
\* when it visits a scenario directory whose index is at or above the number
\* of registry entries, and the rows loaded before keep their tags and values.
C7_OutOfRangeStopsLoad == OutOfRangeStops

\* some seed directory of the pattern holds a table of the kind
TableOnDisk(kind) ==
    \E d \in DigitNames(fs.listing) : \E j \in 1..Len(fs.contents[d]) :
        /\ StartsWith(fs.contents[d][j].name, S_seedEq)
        /\ kind \in fs.contents[d][j].files

\* the kinds of table the call asks for
Kinds == IF loader = "load_data" THEN {"host", "task"} ELSE {file_type}

\* C8 as claimed: a load that went through a pattern in which no seed
\* directory holds a table of a requested kind has raised the empty-result
\* error, and a load that returned has returned no empty table.
C8_NoEmptyResult ==
    /\ (/\ status \in {"returned", "raised"}
        /\ err \notin {"FileNotFoundError", "IndexError", "KeyError"}
        /\ \E kind \in Kinds : ~TableOnDisk(kind))
       => (status = "raised" /\ err = "ValueError")
    /\ status = "returned" => \A i \in 1..Len(loaded) : loaded[i].rows # <<>>

\* the files of the example: two registry entries, scenario 0 with the host
\* rows (100, 50) and (200, 70) in seed 0, scenario 1 with the row (300, 90)
Fixture ==
    /\ loader = "read_parquet_files"
    /\ file_type = "host"
    /\ fs.trackr_exists
    /\ fs.trackr = <<Entry(P_small, S_CostEfficient), Entry(P_large, S_PredictiveCost)>>
    /\ DigitNames(fs.listing) = {<<"0">>, <<"1">>}
    /\ fs.contents[<<"0">>] = SeedsTwoRows
    /\ fs.contents[<<"1">>] = SeedsOneRow

\* C9: loading the files of the example and aggregating on ['scenario'] gives
\* one row per scenario, cost_mean 150.0 for scenario 0 and 300.0 for
\* scenario 1, a cpu_utilization_mean of 60.0 and a cost efficiency of
\* 60.0 / 150.0 = 0.4 for scenario 0.
C9_FixtureAggregate ==
    (Fixture /\ grouped # NoResult)
    => /\ grouped.err = ""
       /\ Len(grouped.rows) = 2
       /\ grouped.rows[1].key = <<0, S_small, S_CostEfficient>>
       /\ grouped.rows[1].stats["cost"].mean = Num(150, 1)
       /\ grouped.rows[1].stats["cpu_utilization"].mean = Num(60, 1)
       /\ efficiency[1] = Num(4, 10)
       /\ grouped.rows[2].key = <<1, S_large, S_PredictiveCost>>
       /\ grouped.rows[2].stats["cost"].mean = Num(300, 1)

\* the example was loaded and aggregated
C9_Witness ==
    /\ Fixture
    /\ status = "returned"
    /\ Len(loaded[1].rows) = 3
    /\ grouped # NoResult
    /\ Len(efficiency) = 2

(***************************************************************************)
(* The priority of the size tokens                                         *)
(***************************************************************************)
\* the first of small, medium, large that occurs anywhere in the path
PriorityClass(path) ==
    IF Contains(path, S_small) THEN S_small
    ELSE IF Contains(path, S_medium) THEN S_medium
    ELSE IF Contains(path, S_large) THEN S_large
    ELSE S_unknown

\* C11 as claimed: every classifier gives a registry entry the first of
\* small, medium, large that occurs anywhere in its topology path, unknown
\* when none occurs, so that two classifiers agree on the same path.
C11_PriorityOfTokens ==
    /\ \A i \in 1..Len(calls) :
          calls[i].has_entry => calls[i].result = PriorityClass(calls[i].path)
    /\ \A i, j \in 1..Len(calls) :
          (calls[i].has_entry /\ calls[j].has_entry /\ calls[i].path = calls[j].path)
          => calls[i].result = calls[j].result

(***************************************************************************)
(* The two drivers: main of analyze_experiments.py and of more_analysis.py *)
(* over the patterns of their lists                                        *)
(***************************************************************************)
S_stable == <<"s", "t", "a", "b", "l", "e">>

S_volatile == <<"v", "o", "l", "a", "t", "i", "l", "e">>

S_spike == <<"s", "p", "i", "k", "e">>

\* the list main iterates over (analyze_experiments.py:528, more_analysis.py:328)
Patterns(driver) ==
    IF driver = "analyze_experiments"
    THEN <<S_stable, S_volatile, S_diurnal, S_spike>>
    ELSE <<S_diurnal, S_spike, S_stable, S_volatile>>

MainHostColumns ==
    {"timestamp_absolute", "cost", "cpu_utilization", "guests_running", "cpu_time_steal"}

MainHostRow(t, cost, cpu_utilization) ==
    [timestamp_absolute |-> t, cost |-> cost, cpu_utilization |-> cpu_utilization,
     guests_running |-> 1, cpu_time_steal |-> 0]

MainTaskFile(rows) ==
    [columns |-> {"timestamp_absolute"} \cup TaskFile(<<>>).columns,
     rows |-> [i \in 1..Len(rows) |-> [timestamp_absolute |-> rows[i].finish_time] @@ rows[i]]]

\* scenario 0: two host samples and a task that completes
MainSeedsCompleted ==
    <<SeedDir(S_seedEq \o <<"0">>, {"host", "task"},
              [columns |-> MainHostColumns,
               rows |-> <<MainHostRow(0, 100, 50), MainHostRow(1000, 200, 70)>>],
              MainTaskFile(<<TaskEvent(1, "RUNNING", 0, 0),
                             TaskEvent(1, "COMPLETED", 0, 3000)>>))>>

\* scenario 1: a host sample of cost zero and a task that ends in ERROR
MainSeedsZeroCost ==
    <<SeedDir(S_seedEq \o <<"0">>, {"host", "task"},
              [columns |-> MainHostColumns, rows |-> <<MainHostRow(0, 0, 90)>>],
              MainTaskFile(<<TaskEvent(2, "ERROR", 500, 500)>>))>>

\* a host file without the column cost
MainSeedsNoCost ==
    <<SeedDir(S_seedEq \o <<"0">>, {"host", "task"},
              [columns |-> MainHostColumns \ {"cost"},
               rows |-> <<[timestamp_absolute |-> 0, cpu_utilization |-> 50,
                           guests_running |-> 1, cpu_time_steal |-> 0]>>],
              MainTaskFile(<<TaskEvent(1, "COMPLETED", 0, 3000)>>))>>

\* a seed directory without task.parquet
MainSeedsNoTask ==
    <<SeedDir(S_seedEq \o <<"0">>, {"host"},
              [columns |-> MainHostColumns, rows |-> <<MainHostRow(0, 100, 50)>>],
              NoTable)>>

PatternFiles(trackr, listing, contents) ==
    [base_path |-> S_output, raw_exists |-> TRUE, trackr_exists |-> TRUE,
     trackr |-> trackr, listing |-> listing, contents |-> contents]

\* the files a pattern can have: complete, absent, of the SimpleCost scheduler
\* only, without the cost column, without task files
MainFiles ==
    {PatternFiles(AggRegistry, <<<<"0">>, <<"1">>>>,
                  (<<"0">> :> MainSeedsCompleted) @@ (<<"1">> :> MainSeedsZeroCost)),
     NoFiles,
     PatternFiles(<<Entry(P_small, S_SimpleCost)>>, <<<<"0">>>>,
                  (<<"0">> :> MainSeedsCompleted)),
     PatternFiles(<<Entry(P_small, S_CostEfficient)>>, <<<<"0">>>>,
                  (<<"0">> :> MainSeedsNoCost)),
     PatternFiles(<<Entry(P_small, S_CostEfficient)>>, <<<<"0">>>>,
                  (<<"0">> :> MainSeedsNoTask))}

InitMain ==
    /\ IdleClassify
    /\ IdleUser
    /\ IdleAgg
    /\ IdleTask
    /\ IdleCmp
    /\ IdleLoad
    /\ program \in {"analyze_experiments", "more_analysis"}
    /\ world \in [Range(Patterns(program)) -> MainFiles]
    /\ pc = "start"
    /\ todo = <<>>
    /\ log = <<>>
    /\ exc = ""
    /\ results = <<>>
    /\ all_efficiency_metrics = <<>>
    /\ all_completion_metrics = <<>>
    /\ cross_pattern = <<>>

\* the pattern the loop of main is at
Current == Patterns(program)[Len(Patterns(program)) - Len(todo)]

\* main up to its loop: the results directory, the logger, the first record
MainStart ==
    /\ pc = "start"
    /\ pc' = "loop"
    /\ todo' = Patterns(program)
    /\ log' = Append(log, LogRecord("info", <<>>, "main"))
    /\ UNCHANGED <<userVars, classifyVars, aggVars, taskVars, cmpVars, loadVars, program, world,
                   exc, results, all_efficiency_metrics, all_completion_metrics,
                   cross_pattern>>

\* one pass of the loop of analyze_experiments.main (lines 528 to 548); an
\* exception leaves the loop for the except clause of main
AnalyzeExperimentsPattern ==
    /\ program = "analyze_experiments"
    /\ pc = "loop"
    /\ todo # <<>>
    /\ \E pattern \in {Head(todo)} : \E r \in {AnalyzePattern(world[pattern], pattern)} :
           /\ log' = Append(log, LogRecord("info", pattern, "main")) \o r.logs
           /\ IF r.err # ""
              THEN pc' = "except" /\ exc' = r.err /\ UNCHANGED results
              ELSE /\ results' = Append(results, [pattern |-> pattern, written |-> r.written])
                   /\ UNCHANGED <<pc, exc>>
    /\ todo' = Tail(todo)
    /\ UNCHANGED <<userVars, classifyVars, aggVars, taskVars, cmpVars, loadVars, program, world,
                   all_efficiency_metrics, all_completion_metrics, cross_pattern>>

\* the except clause of analyze_experiments.main (lines 552 to 554): the
\* error is logged and raised again, out of main
AnalyzeExperimentsExcept ==
    /\ program = "analyze_experiments"
    /\ pc = "except"
    /\ log' = Append(log, LogRecord("error", Current, "main"))
    /\ pc' = "raised"
    /\ UNCHANGED <<userVars, classifyVars, aggVars, taskVars, cmpVars, loadVars, program, world,
                   todo, exc, results, all_efficiency_metrics, all_completion_metrics,
                   cross_pattern>>

\* the end of analyze_experiments.main after the last pattern (line 550)
AnalyzeExperimentsEnd ==
    /\ program = "analyze_experiments"
    /\ pc = "loop"
    /\ todo = <<>>
    /\ log' = Append(log, LogRecord("info", <<>>, "main"))
    /\ pc' = "returned"
    /\ UNCHANGED <<userVars, classifyVars, aggVars, taskVars, cmpVars, loadVars, program, world,
                   todo, exc, results, all_efficiency_metrics, all_completion_metrics,
                   cross_pattern>>

\* one pass of the loop of more_analysis.main (lines 334 to 373): every
\* exception is caught in the pass
MoreAnalysisPattern ==
    /\ program = "more_analysis"
    /\ pc = "loop"
    /\ todo # <<>>
    /\ \E pattern \in {Head(todo)} :
       \E r \in {MorePattern(world[pattern], world[pattern].base_path, pattern)} :
           /\ log' = Append(log, LogRecord("info", pattern, "main")) \o r.logs
           /\ all_efficiency_metrics' = all_efficiency_metrics \o r.efficiency
           /\ all_completion_metrics' = all_completion_metrics \o r.completion
           /\ results' = IF r.written = {} THEN results
                         ELSE Append(results, [pattern |-> pattern, written |-> r.written])
    /\ todo' = Tail(todo)
    /\ UNCHANGED <<userVars, classifyVars, aggVars, taskVars, cmpVars, loadVars, program, world,
                   pc, exc, cross_pattern>>

\* the cross-pattern analysis of more_analysis.main and its end (lines 375 to
\* 462): the two concatenations, then plots and files that need the columns
\* of the metric tables; a failure is logged
MoreAnalysisCrossPattern ==
    /\ program = "more_analysis"
    /\ pc = "loop"
    /\ todo = <<>>
    /\ IF all_efficiency_metrics # <<>> /\ all_completion_metrics # <<>>
       THEN LET all_efficiency_df == Concat(all_efficiency_metrics)
                all_completion_df == Concat(all_completion_metrics)
                failed == \/ all_efficiency_df.rows = <<>>
                          \/ all_completion_df.rows = <<>>
                          \/ "scheduler" \notin all_efficiency_df.columns
                          \/ "scheduler" \notin all_completion_df.columns
            IN  /\ cross_pattern' = <<all_efficiency_df, all_completion_df>>
                /\ log' = IF failed
                          THEN Append(log, LogRecord("error", <<>>, "main"))
                          ELSE log
       ELSE UNCHANGED <<cross_pattern, log>>
    /\ pc' = "returned"
    /\ UNCHANGED <<userVars, classifyVars, aggVars, taskVars, cmpVars, loadVars, program, world,
                   todo, exc, results, all_efficiency_metrics, all_completion_metrics>>

NextMain ==
    \/ MainStart
    \/ AnalyzeExperimentsPattern
    \/ AnalyzeExperimentsExcept
    \/ AnalyzeExperimentsEnd
    \/ MoreAnalysisPattern
    \/ MoreAnalysisCrossPattern

SpecMain == InitMain /\ [][NextMain]_vars

\* the exit status of the process: 0 when main returns, 1 when an exception
\* leaves main
ExitStatus == IF pc = "returned" THEN 0 ELSE IF pc = "raised" THEN 1 ELSE -1

\* the loop of main has taken pattern p
Started(p) == \E i \in 1..Len(log) : log[i] = LogRecord("info", p, "main")

\* an error is logged for pattern p
ErrorLogged(p) == \E i \in 1..Len(log) : log[i].level = "error" /\ log[i].at = p

\* the processing of pattern p fails at some stage
Failing(p) ==
    IF program = "analyze_experiments"
    THEN AnalyzePattern(world[p], p).err # ""
    ELSE LET r == MorePattern(world[p], world[p].base_path, p)
         IN  r.err # "" \/ \E i \in 1..Len(r.logs) : r.logs[i].level = "error"

Ended == pc \in {"returned", "raised"}

\* C12 as claimed: when the processing of a pattern fails at some stage, the
\* driver logs the failure and still processes every remaining pattern of its
\* list: at the end of the run the loop has taken every pattern.
C12_FailureAbortsOnlyItsPattern ==
    \A p \in Range(Patterns(program)) :
        (Started(p) /\ Failing(p)) =>
            /\ ErrorLogged(p)
            /\ Ended => \A q \in Range(Patterns(program)) : Started(q)

\* C13 as claimed: whatever stage fails for whatever pattern, the run ends with
\* exit status 0: no exception leaves main.
C13_ExitStatusZero ==
    /\ Ended => ExitStatus = 0
    /\ pc # "raised"

\* the groups of host_df by cols whose mean cost is 0 (no cost is negative)
ZeroCostKeys(cols) ==
    {k \in {KeyOf(host_df.rows[i], cols) : i \in 1..Len(host_df.rows)} :
        Sum(Column(SelectRows(host_df.rows, cols, k), "cost")) = 0}

\* nan or inf
Sentinel(x) == x.k \in {"nan", "inf"}

\* C14: a group of mean cost 0 does not make analyze_cost_metrics or
\* calculate_efficiency_metrics fail, and the table returned holds the row of
\* the group with a cost efficiency that is nan or inf, not a finite number.
C14_ZeroCostSentinel ==
    /\ cost_metrics # NotRun =>
          /\ cost_metrics.err = ""
          /\ \A k \in ZeroCostKeys(<<"scenario_label", "topology", "scheduler">>) :
                \E i \in 1..Len(cost_metrics.rows) :
                    /\ cost_metrics.rows[i].scenario_label = k[1]
                    /\ cost_metrics.rows[i].cost_mean = Num(0, 1)
                    /\ Sentinel(cost_metrics.rows[i].cost_efficiency)
    /\ efficiency_metrics # NotRun =>
          /\ efficiency_metrics.err = ""
          /\ \A k \in ZeroCostKeys(<<"scheduler", "topology">>) :
                \E i \in 1..Len(efficiency_metrics.table.rows) :
                    /\ efficiency_metrics.table.rows[i].scheduler = k[1]
                    /\ efficiency_metrics.table.rows[i].topology = k[2]
                    /\ efficiency_metrics.table.rows[i].avg_cost = Num(0, 1)
                    /\ Sentinel(efficiency_metrics.table.rows[i].cost_efficiency)

\* both functions have run on a table with a group of mean cost 0 and a group
\* of another mean cost
C14_Witness ==
    /\ cost_metrics # NotRun
    /\ efficiency_metrics # NotRun
    /\ ZeroCostKeys(<<"scheduler", "topology">>) # {}
    /\ Len(efficiency_metrics.table.rows) = 2
    /\ \E i \in 1..2 : efficiency_metrics.table.rows[i].cost_efficiency = Inf
    /\ \E i \in 1..2 : efficiency_metrics.table.rows[i].cost_efficiency.k = "num"

\* no task of rows has COMPLETED as its last state
NoneCompleted(rows) == \A id \in TasksOf(rows) : LastStateOf(rows, id) # "COMPLETED"

\* None or nan
Undefined(x) == x = None \/ x = NaN

\* ExperimentAnalyzer: the five time statistics of a label without a task whose
\* last state is COMPLETED are undefined, and the analysis does not raise
AnalyzerUndefinedTimes ==
    completion_stats # NotRun
    => \A l \in Range(Column(self_task_df, "scenario_label")) :
          NoneCompleted(SelectSeq(self_task_df, LAMBDA r : r.scenario_label = l))
          => /\ completion_stats.err = ""
             /\ \A c \in TimeColumns : Undefined(completion_stats.stats[l][c])

\* the cross-pattern program: the time statistics it reports (avg, median,
\* std) of a group without a task whose last state is COMPLETED are undefined
MoreUndefinedTimes ==
    task_metrics # NotRun
    => /\ task_metrics.err = ""
       /\ \A i \in 1..Len(task_metrics.rows) :
             LET mine == SelectSeq(task_df,
                                   LAMBDA r : /\ r.scheduler = task_metrics.rows[i].scheduler
                                              /\ r.topology = task_metrics.rows[i].topology)
             IN  NoneCompleted(mine)
                 => /\ Undefined(task_metrics.rows[i].avg_completion_time)
                    /\ Undefined(task_metrics.rows[i].median_completion_time)
                    /\ Undefined(task_metrics.rows[i].std_completion_time)

\* C15 as claimed: in the task statistics of either program, a scenario label
\* in which no task's last state is COMPLETED has undefined completion-time
\* statistics, never 0, and the analysis does not raise.
C15_NoCompletionUndefinedTimes == AnalyzerUndefinedTimes /\ MoreUndefinedTimes

\* the cost fields of a comparison row are those of the cost row
CostFieldsIntact(row, cost_row) ==
    /\ row.scenario_label = cost_row.scenario_label
    /\ row.topology = cost_row.topology
    /\ row.scheduler = cost_row.scheduler
    /\ row.avg_cost = cost_row.cost_mean
    /\ row.cost_std = cost_row.cost_std
    /\ row.cpu_utilization = cost_row.cpu_utilization_mean
    /\ row.cost_efficiency = cost_row.cost_efficiency

\* C16: comparative_analysis does not raise, and a cost row whose label has no
\* completion statistics gives a comparison row with the cost fields of the
\* cost row and a completion_rate that is None or nan.
C16_MissingMatchUnavailable ==
    comparison # NotRun
    => /\ comparison.err = ""
       /\ \A i \in 1..Len(cost_metrics.rows) :
             cost_metrics.rows[i].scenario_label \notin Range(completion_stats.index)
             => /\ i <= Len(comparison.rows)
                /\ CostFieldsIntact(comparison.rows[i], cost_metrics.rows[i])
                /\ Undefined(comparison.rows[i].completion_rate)

\* a comparison of two cost rows: the label of one has completion statistics,
\* the label of the other has none, so that its completion_rate is nan; its
\* cost efficiency is inf
C16_Witness ==
    /\ comparison # NotRun
    /\ \E i \in 1..Len(comparison.rows) :
          /\ cost_metrics.rows[i].scenario_label \notin Range(completion_stats.index)
          /\ comparison.rows[i].completion_rate = NaN
          /\ comparison.rows[i].cost_efficiency = Inf

\* the rows of table number t of the cross-pattern analysis tagged with p
CrossRows(t, p) ==
    IF cross_pattern = <<>> THEN <<>>
    ELSE SelectSeq(cross_pattern[t].rows, LAMBDA r : r.pattern = p)

\* a warning or an error is logged for pattern p
WarningOrErrorLogged(p) ==
    \E i \in 1..Len(log) : log[i].level \in {"warning", "error"} /\ log[i].at = p

\* C17: when main of more_analysis.py has run, every pattern of its list has
\* rows tagged with it in both cross-pattern tables, or a warning or an error
\* logged for it.
C17_NoPatternDroppedSilently ==
    (program = "more_analysis" /\ pc = "returned")
    => \A p \in Range(Patterns(program)) :
          \/ CrossRows(1, p) # <<>> /\ CrossRows(2, p) # <<>>
          \/ WarningOrErrorLogged(p)

\* a run of more_analysis.py in which diurnal has rows in both tables and no
\* record, spike is skipped with the warning, stable fails to load and
\* volatile has no efficiency rows
C17_Witness ==
    /\ program = "more_analysis"
    /\ pc = "returned"
    /\ CrossRows(1, S_diurnal) # <<>> /\ CrossRows(2, S_diurnal) # <<>>
    /\ ~WarningOrErrorLogged(S_diurnal)
    /\ LogRecord("warning", S_spike, "main") \in Range(log)
    /\ LogRecord("error", S_stable, "main") \in Range(log)
    /\ CrossRows(1, S_volatile) = <<>> /\ CrossRows(2, S_volatile) # <<>>

\* table t holds the rows of the file of the kind under raw-output/<k>/<s>,
\* each with scenario = k, seed = the integer of s, and the topology class and
\* the policy type of registry entry k
TaggedFrom(t, k, seed_dir, kind) ==
    /\ StartsWith(seed_dir.name, S_seedEq)
    /\ kind \in seed_dir.files
    /\ {"topology", "scheduler", "scenario", "seed"} \subseteq t.columns
    /\ Len(t.rows) = Len(FileOf(seed_dir, kind).rows)
    /\ \A r \in 1..Len(t.rows) :
          /\ t.rows[r].scenario = ParseInt(k)
          /\ seed_dir.name = S_seedEq \o SplitEq(seed_dir.name)[2]
          /\ t.rows[r].seed = ParseInt(SplitEq(seed_dir.name)[2])
          /\ t.rows[r].topology = RegexTopology(fs.trackr[ParseInt(k) + 1].pathToFile)
          /\ fs.trackr[ParseInt(k) + 1].has_policy
          /\ t.rows[r].scheduler = fs.trackr[ParseInt(k) + 1].policyType
          /\ MappingError(fs.trackr) = ""
             => /\ ExperimentMapping(fs.trackr)[ParseInt(k) + 1].scenario = t.rows[r].scenario
                /\ ExperimentMapping(fs.trackr)[ParseInt(k) + 1].topology = t.rows[r].topology
                /\ ExperimentMapping(fs.trackr)[ParseInt(k) + 1].scheduler = t.rows[r].scheduler
          /\ \A c \in FileOf(seed_dir, kind).columns :
                t.rows[r][c] = FileOf(seed_dir, kind).rows[r][c]

\* C18: every table read_parquet_files has accumulated is the file of a seed
\* directory of a visited scenario directory k that has a registry entry,
\* with the four tags on every row: scenario = k, the seed of the directory,
\* and the topology class and scheduler of registry entry k, which are the
\* pair get_experiment_mapping reports for k; the table the call returns is
\* made of these rows.
C18_RowsCarryTags ==
    loader = "read_parquet_files"
    => /\ \A t \in 1..Len(dfs) :
             \E i \in 1..Len(Visited) :
                /\ IsDigit(Visited[i])
                /\ ~OutOfRange(Visited[i])
                /\ \E j \in 1..Len(fs.contents[Visited[i]]) :
                      TaggedFrom(dfs[t], Visited[i], fs.contents[Visited[i]][j], file_type)
       /\ status = "returned" => loaded = <<Concat(dfs)>>

\* a load that returned the rows of two scenarios, tagged small and
\* CostEfficient for scenario 0 and large and PredictiveCost for scenario 1
C18_Witness ==
    /\ loader = "read_parquet_files"
    /\ status = "returned"
    /\ Len(dfs) = 2
    /\ \E r \in 1..Len(loaded[1].rows) :
          /\ loaded[1].rows[r].scenario = 0
          /\ loaded[1].rows[r].seed = 0
          /\ loaded[1].rows[r].topology = S_small
          /\ loaded[1].rows[r].scheduler = S_CostEfficient
    /\ \E r \in 1..Len(loaded[1].rows) :
          /\ loaded[1].rows[r].scenario = 1
          /\ loaded[1].rows[r].seed = 1
          /\ loaded[1].rows[r].topology = S_large
          /\ loaded[1].rows[r].scheduler = S_PredictiveCost

\* the raw policy type of a registry entry, "Unknown" when it has none
PolicyLabel(entry) == IF entry.has_policy THEN entry.policyType ELSE S_Unknown

\* every row of the tables carries the policy label of the registry entry of
\* its scenario, when there is one
PolicyLabels(tables) ==
    \A t \in 1..Len(tables) : \A r \in 1..Len(tables[t].rows) :
        tables[t].rows[r].scenario < Len(fs.trackr)
        => tables[t].rows[r].scheduler = PolicyLabel(fs.trackr[tables[t].rows[r].scenario + 1])

\* C19 as claimed: in either loader, the rows of a scenario with a registry
\* entry carry the entry's raw policy type, "Unknown" when the entry has
\* none, and the lookup of the label does not make the load fail.
C19_SchedulerLabelNeverFails ==
    fs.trackr_exists
    => /\ err # "KeyError"
       /\ PolicyLabels(dfs)
       /\ PolicyLabels(task_dfs)

\* where the two labels of a scenario come from: the registry entry of the
\* scenario ("registry") or the substrings of the scenario path ("fallback")
LabelSource(scenario_path, trackr_exists, configs) ==
    [topology |->
        IF /\ HasConfig(scenario_path, trackr_exists, configs)
           /\ ConfigOf(scenario_path, configs).has_path
           /\ SubstringTopology(ConfigOf(scenario_path, configs).pathToFile) # <<>>
        THEN "registry" ELSE "fallback",
     scheduler |->
        IF HasConfig(scenario_path, trackr_exists, configs)
        THEN "registry" ELSE "fallback"]

\* the labels load_data tags the rows of a scenario with
LabelsOf(scenario_path, trackr_exists, configs) ==
    [topology |-> ParseTopologySize(scenario_path, trackr_exists, configs),
     scheduler |-> SchedulerInfo(scenario_path, trackr_exists, configs)]

\* the rows of the tables tell the source of their labels: no registry
\* situation with another source gives the scenario the labels the rows carry
SourceTold(tables) ==
    \A t \in 1..Len(tables) : \A r \in 1..Len(tables[t].rows) :
        \A d \in DigitNames(fs.listing) :
            ParseInt(d) = tables[t].rows[r].scenario
            => LET scenario_path == PathJoin(PatternPath(fs.base_path, S_diurnal), d)
               IN  \A te \in BOOLEAN : \A reg \in Registries :
                       LabelsOf(scenario_path, te, reg)
                           = [topology |-> tables[t].rows[r].topology,
                              scheduler |-> tables[t].rows[r].scheduler]
                       => LabelSource(scenario_path, te, reg)
                              = LabelSource(scenario_path, fs.trackr_exists, fs.trackr)

\* C20 as claimed: the tagged rows of load_data tell whether the topology and
\* scheduler labels of their scenario came from the registry or from the
\* path-substring fallback.
C20_LabelSourceDistinguishable ==
    loader = "load_data" => SourceTold(dfs) /\ SourceTold(task_dfs)

\* C21 as claimed: a load of a pattern whose registry file is absent has
\* failed with the not-found error as soon as it started, in either loader,
\* and holds no table tagged without a registry.
C21_AbsentRegistryFails ==
    (~fs.trackr_exists /\ status # "init")
    => /\ status = "raised"
       /\ err = "FileNotFoundError"
       /\ dfs = <<>>
       /\ task_dfs = <<>>

\* C22: in the labelled host table of one pattern, two rows carry the same
\* scenario_label exactly when they carry the same topology class and the
\* same scheduler label, and the cost aggregate computed from the table has
\* one row for every label.
C22_LabelUniquePerTopologyScheduler ==
    /\ \A i, j \in 1..Len(host_df.rows) :
          host_df.rows[i].scenario_label = host_df.rows[j].scenario_label
          <=> /\ host_df.rows[i].topology = host_df.rows[j].topology
              /\ host_df.rows[i].scheduler = host_df.rows[j].scheduler
    /\ (cost_metrics # NotRun /\ cost_metrics.err = "")
       => Len(cost_metrics.rows)
              = Cardinality({<<host_df.rows[i].topology, host_df.rows[i].scheduler>> :
                                i \in 1..Len(host_df.rows)})

\* a labelled table whose two rows share the topology class and differ in the
\* scheduler, with its cost aggregate computed
C22_Witness ==
    /\ cost_metrics # NotRun
    /\ cost_metrics.err = ""
    /\ \E i, j \in 1..Len(host_df.rows) :
          /\ host_df.rows[i].topology = host_df.rows[j].topology
          /\ host_df.rows[i].scheduler # host_df.rows[j].scheduler
          /\ host_df.rows[i].scenario_label # host_df.rows[j].scenario_label

\* the group keys of the cost aggregate, as the rows of the host table hold them
CostGroupKeys ==
    {[c \in {"scenario_label", "topology", "scheduler"} |-> host_df.rows[i][c]] :
        i \in 1..Len(host_df.rows)}

\* the columns of the flattened cost aggregate: the group keys under their
\* own names and a mean and a std for each of the two metrics
FlattenedCostColumns ==
    {"scenario_label", "topology", "scheduler"}
    \cup {"cost_mean", "cost_std", "cpu_utilization_mean", "cpu_utilization_std"}

\* C23: the aggregate of analyze_cost_metrics, flattened, has one row for
\* every combination of group keys of the host table; its columns are the
\* group keys under their own names and <metric>_mean and <metric>_std for
\* the two requested metrics, and nothing else but the cost_efficiency that
\* the analysis adds afterwards.
C23_FlattenedAggregateShape ==
    cost_metrics # NotRun
    => /\ cost_metrics.err = ""
       /\ cost_metrics.columns = FlattenedCostColumns \cup {"cost_efficiency"}
       /\ \A i \in 1..Len(cost_metrics.rows) :
             DOMAIN cost_metrics.rows[i] = FlattenedCostColumns \cup {"cost_efficiency"}
       /\ \A k \in CostGroupKeys :
             \E i \in 1..Len(cost_metrics.rows) :
                /\ \A c \in DOMAIN k : cost_metrics.rows[i][c] = k[c]
                /\ \A j \in 1..Len(cost_metrics.rows) :
                      (\A c \in DOMAIN k : cost_metrics.rows[j][c] = k[c]) => j = i
       /\ Len(cost_metrics.rows) = Cardinality(CostGroupKeys)

\* a cost aggregate of a host table with two groups
C23_Witness ==
    /\ cost_metrics # NotRun
    /\ cost_metrics.err = ""
    /\ Len(cost_metrics.rows) = 2
    /\ Len(host_df.rows) = 2

\* reading the table of the seed directory fails: int() raises on its name
SeedReadFails(seed_dir) ==
    /\ StartsWith(seed_dir.name, S_seedEq)
    /\ ~IsDigit(SplitEq(seed_dir.name)[2])
    /\ seed_dir.files \cap Kinds # {}

\* the seed directory holds a table of the kind that can be read
Readable(seed_dir, kind) ==
    /\ StartsWith(seed_dir.name, S_seedEq)
    /\ IsDigit(SplitEq(seed_dir.name)[2])
    /\ kind \in seed_dir.files

\* the table of the kind of a seed directory of scenario directory d is among
\* the tables
TableLoaded(tables, d, seed_dir, kind) ==
    \E t \in 1..Len(tables) :
        /\ Len(tables[t].rows) = Len(FileOf(seed_dir, kind).rows)
        /\ "scenario" \in tables[t].columns
        /\ \A r \in 1..Len(tables[t].rows) :
              /\ tables[t].rows[r].scenario = ParseInt(d)
              /\ tables[t].rows[r].seed = ParseInt(SplitEq(seed_dir.name)[2])
              /\ \A c \in FileOf(seed_dir, kind).columns :
                    tables[t].rows[r][c] = FileOf(seed_dir, kind).rows[r][c]

\* the visited scenario directories with an integer name
VisitedScenarios == {Visited[i] : i \in {j \in 1..Len(Visited) : IsDigit(Visited[j])}}

\* the load meets no failure other than that of reading a seed
OnlySeedFailures ==
    loader = "read_parquet_files"
    => /\ fs.trackr_exists
       /\ \A d \in DigitNames(fs.listing) :
             ~OutOfRange(d) /\ fs.trackr[ParseInt(d) + 1].has_policy

\* C25 as claimed: in either loader, when reading a seed of a visited scenario
\* fails, the load goes on: the table of every readable seed of every visited
\* scenario is loaded, and the load stops early for no reason but an empty
\* result at its end.
C25_SeedFailureSkipsOnlyThatSeed ==
    (/\ OnlySeedFailures
     /\ \E d \in VisitedScenarios : \E j \in 1..Len(fs.contents[d]) :
           SeedReadFails(fs.contents[d][j]))
    => /\ \A d \in VisitedScenarios : \A j \in 1..Len(fs.contents[d]) :
             /\ (Readable(fs.contents[d][j], "host") /\ "host" \in Kinds)
                => TableLoaded(dfs, d, fs.contents[d][j], "host")
             /\ (Readable(fs.contents[d][j], "task") /\ "task" \in Kinds)
                => TableLoaded(IF loader = "load_data" THEN task_dfs ELSE dfs,
                               d, fs.contents[d][j], "task")
       /\ status = "raised" => remaining = <<>> /\ (dfs = <<>> \/ task_dfs = <<>>)

\* the orders in which os.listdir can return the entries of a listing
Orders(listing) ==
    {l \in [1..Len(listing) -> Range(listing)] : Range(l) = Range(listing)}

\* the same files discovered in another order: the scenario directories and
\* the seed directories of each of them
Rediscovered(files) ==
    {[files EXCEPT !.listing = l, !.contents = c] :
        l \in Orders(files.listing),
        c \in {x \in [DOMAIN files.contents ->
                         UNION {Orders(files.contents[d]) : d \in DOMAIN files.contents}] :
                  \A d \in DOMAIN files.contents : x[d] \in Orders(files.contents[d])}}

\* total_tasks and the three rates of every scenario label of a loaded task
\* table, as ExperimentAnalyzer computes them
TaskStatistics(table) ==
    LET r == AnalyzeTaskCompletion(AnalyzerTable(table.rows, S_diurnal))
    IN  [err |-> r.err,
         stats |-> [l \in Range(r.index) |->
                      [c \in {"total_tasks", "completion_rate", "termination_rate",
                              "error_rate"} |-> r.stats[l][c]]]]

\* C26 as claimed: the task statistics per scenario label of a task table
\* that read_parquet_files returned are those of the table it returns when
\* the same scenario and seed directories are listed in any other order.
C26_StatisticsIndependentOfListingOrder ==
    (loader = "read_parquet_files" /\ file_type = "task" /\ status = "returned")
    => \A files \in Rediscovered(fs) :
          /\ ReadParquetFiles(files, "task").err = ""
          /\ TaskStatistics(ReadParquetFiles(files, "task").table) = TaskStatistics(loaded[1])

\* C27 as claimed: when parse_topology_size finds a registry entry for the
\* scenario directory, the class is decided by the entry alone: the size
\* token of its topology path, and unknown when the path holds none,
\* whatever the path of the scenario directory contains.
C27_FallbackOnlyWithoutEntry ==
    \A i \in 1..Len(calls) :
        (calls[i].fn = "parse_topology_size" /\ calls[i].has_entry)
        => calls[i].result = IF SubstringTopology(calls[i].path) # <<>>
                             THEN SubstringTopology(calls[i].path)
                             ELSE S_unknown

\* C28 as claimed: a call of aggregate_runs leaves the caller's group-key
\* list, metric list and table as they were before the call.
C28_ArgumentsUnchanged ==
    [][(grouped = NoResult /\ grouped' # NoResult)
       => /\ group_cols' = group_cols
          /\ metric_cols' = metric_cols
          /\ df' = df]_vars

\* the number of rows of a scheduler that ExperimentAnalyzer's filter kept,
\* and that the filter of more_analysis kept
AnalyzerKept(scheduler) ==
    Len(SelectSeq(self_task_df, LAMBDA r : r.scheduler = scheduler))

MoreKept(scheduler) ==
    LET mine == SelectSeq(task_metrics.rows, LAMBDA r : r.scheduler = scheduler)
    IN  IF mine = <<>> THEN 0 ELSE mine[1].total_tasks

\* C29 as claimed: once both programs have filtered the same loaded task
\* table, they have kept the same rows: for every scheduler label, as many
\* rows passed VALID_SCHEDULERS as passed the exclusion of SimpleCost and
\* Unknown.
C29_FiltersSelectSameRows ==
    (completion_stats # NotRun /\ task_metrics # NotRun)
    => \A scheduler \in {task_df[i].scheduler : i \in 1..Len(task_df)} :
          AnalyzerKept(scheduler) = MoreKept(scheduler)

(***************************************************************************)
(* The user endpoint /v2/users/{userId}: GET, PUT and DELETE               *)
(***************************************************************************)

UserIds == {"1", "2"}

GoogleIds == {"g1", "g2"}

UserNames == {"Ann", "Bo"}

\* a parameter the request does not carry
Missing == "missing"

\* Python's None where an object is expected: User.obj of an id the store
\* does not hold, and the content of a Response built without one
NoObj == [googleId |-> "", givenName |-> "", familyName |-> ""]

\* Response(status, message, content)
Response(code, message, content) ==
    [status |-> code, message |-> message, content |-> content]

\* validate() returned None
NoValidationError == Response(0, "", NoObj)

\* no request handled yet
NoRequest ==
    [method |-> "none", params_path |-> [userId |-> Missing],
     params_body |-> [user |-> [givenName |-> Missing, familyName |-> Missing]],
     google_id |-> ""]

Requests ==
    [method : {"GET", "PUT", "DELETE"},
     params_path : [userId : UserIds \cup {Missing}],
     params_body : [user : [givenName : UserNames \cup {Missing},
                            familyName : UserNames \cup {Missing}]],
     google_id : GoogleIds]

\* the stores the endpoint starts on: each user is absent or registered
\* under one of two Google accounts
Databases ==
    [UserIds -> {NoObj} \cup
                {[googleId |-> g, givenName |-> "Ann", familyName |-> "Bo"] :
                    g \in GoogleIds}]

\* request.check_required_parameters(body=..., path=...): the message of
\* the ParameterError it raises, "" when every required one is there
CheckRequiredParameters(req, body, path) ==
    IF \E p \in path : req.params_path[p] = Missing
    THEN "Missing required path parameter"
    ELSE IF \E p \in body : req.params_body.user[p] = Missing
    THEN "Missing required body parameter"
    ELSE ""

\* User.from_id(userId): the record of the store, NoObj when there is none
FromId(store, userId) == store[userId]

\* user.validate(request_google_id): an error Response, or none
Validate(user, request_google_id) ==
    IF user = NoObj
    THEN Response(404, "User not found.", NoObj)
    ELSE IF request_google_id # "" /\ user.googleId # request_google_id
    THEN Response(403, "Forbidden from editing user.", NoObj)
    ELSE NoValidationError

\* user.set_property(key, value)
SetProperty(user, key, value) == [user EXCEPT ![key] = value]

\* user.update(): the record of the store becomes user.obj
Update(store, userId, user) == [store EXCEPT ![userId] = user]

\* user.delete(): the store holds no record of the user any more
Delete(store, userId) == [store EXCEPT ![userId] = NoObj]

GET ==
    /\ \E req \in {r \in Requests : r.method = "GET"} :
         /\ handled' = req
         /\ before' = database
         /\ \E e \in {CheckRequiredParameters(req, {}, {"userId"})} :
              IF e # ""
              THEN response' = Response(400, e, NoObj)
              ELSE \E user \in {FromId(database, req.params_path.userId)} :
                   \E validation_error \in {Validate(user, "")} :
                      IF validation_error # NoValidationError
                      THEN response' = validation_error
                      ELSE response' = Response(200, "Successfully retrieved user.", user)
         /\ UNCHANGED database
    /\ UNCHANGED <<classifyVars, aggVars, taskVars, cmpVars, loadVars, mainVars>>

\* PUT with the update moved in front of the validation
PUTUpdateFirst ==
    /\ \E req \in {r \in Requests : r.method = "PUT"} :
         /\ handled' = req
         /\ before' = database
         /\ \E e \in {CheckRequiredParameters(req, {"givenName", "familyName"}, {"userId"})} :
              IF e # ""
              THEN response' = Response(400, e, NoObj) /\ UNCHANGED database
              ELSE \E user \in {FromId(database, req.params_path.userId)} :
                   \E validation_error \in {Validate(user, req.google_id)} :
                   \E updated \in {SetProperty(SetProperty(user, "givenName",
                                                   req.params_body.user.givenName),
                                       "familyName", req.params_body.user.familyName)} :
                      /\ database' = IF user = NoObj THEN database
                                     ELSE Update(database, req.params_path.userId, updated)
                      /\ IF validation_error # NoValidationError
                         THEN response' = validation_error
                         ELSE response' = Response(200, "Successfully updated user.", updated)
    /\ UNCHANGED <<classifyVars, aggVars, taskVars, cmpVars, loadVars, mainVars>>

PUT ==
    /\ \E req \in {r \in Requests : r.method = "PUT"} :
         /\ handled' = req
         /\ before' = database
         /\ \E e \in {CheckRequiredParameters(req, {"givenName", "familyName"}, {"userId"})} :
              IF e # ""
              THEN response' = Response(400, e, NoObj) /\ UNCHANGED database
              ELSE \E user \in {FromId(database, req.params_path.userId)} :
                   \E validation_error \in {Validate(user, req.google_id)} :
                      IF validation_error # NoValidationError
                      THEN response' = validation_error /\ UNCHANGED database
                      ELSE \E updated \in {SetProperty(SetProperty(user, "givenName",
                                                           req.params_body.user.givenName),
                                               "familyName", req.params_body.user.familyName)} :
                              /\ database' = Update(database, req.params_path.userId, updated)
                              /\ response' = Response(200, "Successfully updated user.", updated)
    /\ UNCHANGED <<classifyVars, aggVars, taskVars, cmpVars, loadVars, mainVars>>

DELETE ==
    /\ \E req \in {r \in Requests : r.method = "DELETE"} :
         /\ handled' = req
         /\ before' = database
         /\ \E e \in {CheckRequiredParameters(req, {}, {"userId"})} :
              IF e # ""
              THEN response' = Response(400, e, NoObj) /\ UNCHANGED database
              ELSE \E user \in {FromId(database, req.params_path.userId)} :
                   \E validation_error \in {Validate(user, req.google_id)} :
                      IF validation_error # NoValidationError
                      THEN response' = validation_error /\ UNCHANGED database
                      ELSE /\ database' = Delete(database, req.params_path.userId)
                           /\ response' = Response(200, "Successfully deleted user.", user)
    /\ UNCHANGED <<classifyVars, aggVars, taskVars, cmpVars, loadVars, mainVars>>

InitUser ==
    /\ IdleClassify
    /\ IdleAgg
    /\ IdleTask
    /\ IdleCmp
    /\ IdleLoad
    /\ IdleMain
    /\ database \in Databases
    /\ before = database
    /\ handled = NoRequest
    /\ response = NoValidationError

NextUser == GET \/ PUT \/ DELETE

SpecUser == InitUser /\ [][NextUser]_vars

\* the handler got past check_required_parameters
ParametersChecked ==
    CheckRequiredParameters(handled,
                            IF handled.method = "PUT" THEN {"givenName", "familyName"} ELSE {},
                            {"userId"}) = ""

\* what user.validate answered on the store the request met
ValidationErrorMet ==
    Validate(FromId(before, handled.params_path.userId),
             IF handled.method = "GET" THEN "" ELSE handled.google_id)

\* C30: in the user endpoint PUT and DELETE change or delete the user only
\* after the required parameters were checked and
\* user.validate(request.google_id) returned no error: on a parameter error
\* the response is 400 and the user records are unchanged, on a validation
\* error that error is the response and the user records are unchanged, and
\* GET never changes the user records
C30_ChangeOnlyAfterChecks ==
    handled # NoRequest =>
        /\ ~ParametersChecked => response.status = 400 /\ database = before
        /\ (ParametersChecked /\ ValidationErrorMet # NoValidationError)
               => response = ValidationErrorMet /\ database = before
        /\ handled.method = "GET" => database = before
        /\ database # before
               => /\ handled.method \in {"PUT", "DELETE"}
                  /\ ParametersChecked
                  /\ ValidationErrorMet = NoValidationError
                  /\ response.status = 200

\* a PUT with every parameter, refused by validate, whose names differ from
\* the ones of the record it met, and the record is as it was
C30_Witness ==
    /\ handled.method = "PUT"
    /\ ParametersChecked
    /\ response.status = 403
    /\ before[handled.params_path.userId].givenName # handled.params_body.user.givenName
    /\ database = before
====
